---- MODULE Spec2Model ----
(***************************************************************************)
(* A model of kballard/goirc: the IRC connection core.                     *)
(*                                                                         *)
(* A Go string is a sequence of bytes.  A byte is written as a TLA+ string *)
(* token: a printable ASCII byte is the one-character string, CR and LF    *)
(* are "\r" and "\n", NUL is "NUL", 0x01 is "SOH", and a byte >= 0x80 is    *)
(* its two hex digits ("C3", "A9"); backslash, caret and backtick are     *)
(* "BSLASH", "CARET" and "BTICK".                                          *)
(***************************************************************************)
EXTENDS Integers, Sequences, FiniteSets, TLC

(***************************************************************************)
(* Bytes and the string helpers of the Go standard library that the code   *)
(* uses.                                                                   *)
(***************************************************************************)
Lower == {"a","b","c","d","e","f","g","h","i","j","k","l","m",
          "n","o","p","q","r","s","t","u","v","w","x","y","z"}
Upper == {"A","B","C","D","E","F","G","H","I","J","K","L","M",
          "N","O","P","Q","R","S","T","U","V","W","X","Y","Z"}
Digit == {"0","1","2","3","4","5","6","7","8","9"}

\* the bytes 0x80..0xBF used by the model (UTF-8 continuation bytes)
ContByte == {"80","82","A9","AC","BD","BF"}
\* lead bytes of 2-, 3- and 4-byte UTF-8 sequences used by the model
Lead2 == {"C3"}
Lead3 == {"E2","EF"}
Lead4 == {"F0"}

\* utf8.UTFMax
UTFMax == 4

\* utf8.RuneStart: the byte is not a continuation byte
RuneStart(b) == b \notin ContByte

Min(a, b) == IF a < b THEN a ELSE b
Max(a, b) == IF a > b THEN a ELSE b

\* F(v), with v evaluated once however often F uses it: the value of a Go
\* local variable or of an argument passed by value
Once(v, F(_)) == CHOOSE r \in {F(x) : x \in {v}} : TRUE

\* s[from..] of Go, with 1-based from
Drop(s, n) == SubSeq(s, n + 1, Len(s))
Take(s, n) == SubSeq(s, 1, n)

\* strings.HasPrefix
HasPrefix(s, p) == Len(s) >= Len(p) /\ Take(s, Len(p)) = p
\* strings.HasSuffix
HasSuffix(s, p) == Len(s) >= Len(p) /\ Drop(s, Len(s) - Len(p)) = p

\* strings.Index: the 1-based position of the first occurrence, 0 if none
Index(s, p) ==
    LET hits == {i \in 1..(Len(s) - Len(p) + 1) : SubSeq(s, i, i + Len(p) - 1) = p}
    IN  IF hits = {} THEN 0 ELSE CHOOSE i \in hits : \A j \in hits : i <= j

\* strings.SplitN(s, sep, 2)
SplitN2(s, sep) ==
    LET i == Index(s, sep)
    IN  IF i = 0 THEN <<s>>
        ELSE <<Take(s, i - 1), Drop(s, i + Len(sep) - 1)>>

\* strings.FieldsFunc(s, r == ' '): the maximal runs of non-space bytes
RECURSIVE Fields(_)
Fields(str) ==
    Once(str, LAMBDA s :
        IF s = <<>> THEN <<>>
        ELSE IF Head(s) = " " THEN Fields(Tail(s))
        ELSE Once(Index(s, <<" ">>), LAMBDA sp :
                IF sp = 0 THEN <<s>>
                ELSE <<Take(s, sp - 1)>> \o Fields(Drop(s, sp))))

\* utf8.DecodeRuneInString: [ok |-> a rune other than RuneError, size |-> bytes]
DecodeRune(s) ==
    LET conts(n) == Len(s) >= n /\ \A i \in 2..n : s[i] \in ContByte
    IN  IF s = <<>> THEN [ok |-> FALSE, size |-> 0]
        ELSE IF s[1] \in Lead2 /\ conts(2) THEN [ok |-> TRUE, size |-> 2]
        ELSE IF s[1] \in Lead3 /\ conts(3)
             THEN [ok |-> Take(s, 3) # <<"EF","BF","BD">>, size |-> 3]
        ELSE IF s[1] \in Lead4 /\ conts(4) THEN [ok |-> TRUE, size |-> 4]
        ELSE IF s[1] \in ContByte \cup Lead2 \cup Lead3 \cup Lead4
             THEN [ok |-> FALSE, size |-> 1]
        ELSE [ok |-> TRUE, size |-> 1]

\* utf8.DecodeLastRuneInString, as far as `r == utf8.RuneError` goes
LastRuneIsError(s) ==
    IF s = <<>> THEN TRUE
    ELSE IF s[Len(s)] \notin ContByte \cup Lead2 \cup Lead3 \cup Lead4 THEN FALSE
    ELSE LET lim    == Max(Len(s) - UTFMax, 0) + 1
             starts == {i \in lim..(Len(s) - 1) : RuneStart(s[i])}
             start  == IF starts = {} THEN lim
                       ELSE CHOOSE i \in starts : \A j \in starts : j <= i
             d      == DecodeRune(SubSeq(s, start, Len(s)))
         IN  \/ start + d.size - 1 # Len(s)
             \/ ~d.ok

(***************************************************************************)
(* The line codec: composing outbound lines.                               *)
(***************************************************************************)
\* the truncation length of filterMessage
MaxMessage == 510

\* a filterMessage that cuts at MaxMessage bytes and leaves a broken rune
filterMessageBytes(text) ==
    LET kept == SelectSeq(text, LAMBDA b : b \notin {"NUL", "\r", "\n"})
    IN  IF Len(kept) > MaxMessage THEN Take(kept, MaxMessage) ELSE kept

filterMessage(text) ==
    LET kept  == SelectSeq(text, LAMBDA b : b \notin {"NUL", "\r", "\n"})
        cut   == IF Len(kept) > MaxMessage THEN Take(kept, MaxMessage) ELSE kept
        \* the positions the backward search looks at, last first
        found == {i \in Max(Len(cut) - UTFMax + 1, 1)..Len(cut) : RuneStart(cut[i])}
    IN  IF Len(kept) > MaxMessage /\ LastRuneIsError(cut) /\ found # {}
        THEN Take(cut, (CHOOSE i \in found : \A j \in found : j <= i) - 1)
        ELSE cut

\* a firstWord that ends the word only at CR or LF
firstWordLine(text) ==
    LET stops == {i \in 1..Len(text) : text[i] \in {"\r", "\n"}}
    IN  IF stops = {} THEN text
        ELSE Take(text, (CHOOSE i \in stops : \A j \in stops : i <= j) - 1)

firstWord(text) ==
    LET stops == {i \in 1..Len(text) : text[i] \in {" ", "\r", "\n"}}
    IN  IF stops = {} THEN text
        ELSE Take(text, (CHOOSE i \in stops : \A j \in stops : i <= j) - 1)

firstLine(text) ==
    LET stops == {i \in 1..Len(text) : text[i] \in {"\r", "\n"}}
    IN  IF stops = {} THEN text
        ELSE Take(text, (CHOOSE i \in stops : \A j \in stops : i <= j) - 1)

composePrivmsg(dst, msg) ==
    filterMessage(<<"P","R","I","V","M","S","G"," ">> \o firstWord(dst)
                  \o <<" ",":">> \o firstLine(msg))

composeNotice(dst, msg) ==
    filterMessage(<<"N","O","T","I","C","E"," ">> \o firstWord(dst)
                  \o <<" ",":">> \o firstLine(msg))

composeCTCP(dst, command, msg, isReply) ==
    LET prefix == IF isReply THEN <<"N","O","T","I","C","E">>
                  ELSE <<"P","R","I","V","M","S","G">>
    IN  IF msg = <<>>
        THEN filterMessage(prefix \o <<" ">> \o firstWord(dst) \o <<" ",":","SOH">>
                           \o firstWord(command) \o <<"SOH">>)
        ELSE filterMessage(prefix \o <<" ">> \o firstWord(dst) \o <<" ",":","SOH">>
                           \o firstWord(command) \o <<" ">> \o firstLine(msg)
                           \o <<"SOH">>)

composeQuit(msg) ==
    IF msg = <<>> THEN <<"Q","U","I","T">>
    ELSE filterMessage(<<"Q","U","I","T"," ",":">> \o firstLine(msg))

composeNick(nick) ==
    filterMessage(<<"N","I","C","K"," ",":">> \o firstLine(nick))

\* strings.Join(list, ",")
RECURSIVE JoinComma(_)
JoinComma(list) ==
    IF list = <<>> THEN <<>>
    ELSE IF Len(list) = 1 THEN list[1]
    ELSE list[1] \o <<",">> \o JoinComma(Tail(list))

\* strings.SplitN(firstWord(c), ",", 2)[0] for every c of the list
firstNames(list) == [i \in 1..Len(list) |-> SplitN2(firstWord(list[i]), <<",">>)[1]]

composeJoin(channels, keys) ==
    LET newchan == firstNames(channels)
        newkey  == firstNames(keys)
    IN  IF Len(newkey) > 0
        THEN filterMessage(<<"J","O","I","N"," ">> \o JoinComma(newchan) \o <<" ">>
                           \o JoinComma(newkey))
        ELSE filterMessage(<<"J","O","I","N"," ">> \o JoinComma(newchan))

composePart(channels, msg) ==
    LET newchan == firstNames(channels)
    IN  IF msg # <<>>
        THEN filterMessage(<<"P","A","R","T"," ">> \o JoinComma(newchan) \o <<" ",":">>
                           \o firstLine(msg))
        ELSE filterMessage(<<"P","A","R","T"," ">> \o JoinComma(newchan))

\* Conn.Raw / safeConn.Raw: what is put on the writer channel
RawLine(msg) == filterMessage(firstLine(msg))

(***************************************************************************)
(* The line codec: parsing inbound lines.                                  *)
(***************************************************************************)
\* userRegex: ^([a-zA-Z[-`{-}][a-zA-Z0-9[-`{-}\-]+)(?:!([^@]+))@(.+)$
NickFirst == Lower \cup Upper \cup {"[", "BSLASH", "]", "CARET", "_", "BTICK", "{", "|", "}"}
NickRest  == NickFirst \cup Digit \cup {"-"}

NoUser(raw) == [Nick |-> <<>>, User |-> <<>>, Host |-> <<>>, Raw |-> raw]

parseUser(raw) ==
    LET bang == Index(raw, <<"!">>)
        rest == Drop(raw, bang)
        at   == Index(rest, <<"@">>)
    IN  IF /\ bang >= 3
           /\ raw[1] \in NickFirst
           /\ \A i \in 2..(bang - 1) : raw[i] \in NickRest
           /\ at >= 2
           /\ Len(rest) > at
        THEN [Nick |-> Take(raw, bang - 1), User |-> Take(rest, at - 1),
              Host |-> Drop(rest, at), Raw |-> raw]
        ELSE NoUser(raw)

\* parseLine after the split into words: the optional prefix, the command,
\* the arguments and the trailing argument
parseWords(input, comps, words, hasSrc) ==
    [Src     |-> IF hasSrc THEN parseUser(Tail(Head(words))) ELSE NoUser(<<>>),
     Command |-> IF Len(words) > (IF hasSrc THEN 1 ELSE 0)
                 THEN words[IF hasSrc THEN 2 ELSE 1] ELSE <<>>,
     Args    |-> IF Len(words) > (IF hasSrc THEN 1 ELSE 0)
                 THEN SubSeq(words, IF hasSrc THEN 3 ELSE 2, Len(words))
                      \o (IF Len(comps) > 1 THEN <<comps[2]>> ELSE <<>>)
                 ELSE <<>>,
     Raw |-> input, Dst |-> <<>>, me |-> <<>>]

parseSplit(input, comps, words) ==
    parseWords(input, comps, words, words # <<>> /\ Head(Head(words)) = ":")

parseComps(input, comps) ==
    Once(Fields(comps[1]), LAMBDA words : parseSplit(input, comps, words))

parseLine(input) ==
    IF input = <<>> \/ Head(input) = " "
    THEN [Src |-> NoUser(<<>>), Command |-> <<>>, Args |-> <<>>,
          Raw |-> input, Dst |-> <<>>, me |-> <<>>]
    ELSE Once(SplitN2(input, <<" ", ":">>), LAMBDA comps : parseComps(input, comps))

(***************************************************************************)
(* Event names and the lines the modelled server sends.                    *)
(***************************************************************************)
INIT         == <<"i","r","c",":","i","n","i","t">>
CONNECTED    == <<"i","r","c",":","c","o","n","n","e","c","t","e","d">>
DISCONNECTED == <<"i","r","c",":","d","i","s","c","o","n","n","e","c","t","e","d">>
EvACTION     == <<"i","r","c",":","a","c","t","i","o","n">>
CTCP         == <<"i","r","c",":","c","t","c","p">>
CTCPREPLY    == <<"i","r","c",":","c","t","c","p","r","e","p","l","y">>

Cmd001     == <<"0","0","1">>
Cmd004     == <<"0","0","4">>
CmdPING    == <<"P","I","N","G">>
CmdMODE    == <<"M","O","D","E">>
CmdNICK    == <<"N","I","C","K">>
CmdPRIVMSG == <<"P","R","I","V","M","S","G">>
CmdNOTICE  == <<"N","O","T","I","C","E">>

\* Config.Nick of the modelled client
CfgNick == <<"g","o","i","r","c">>
MyNick  == <<"m","y","n","i","c","k">>
NewNick == <<"n","e","w">>

\* ":irc.example.com 001 mynick :Welcome"
Line001 == <<":","i","r","c",".","e","x","a","m","p","l","e",".","c","o","m"," ",
             "0","0","1"," ","m","y","n","i","c","k"," ",":","W","e","l","c","o","m","e">>
\* a 001 without arguments
Line001Bare == <<":","i","r","c",".","e","x","a","m","p","l","e",".","c","o","m"," ",
                 "0","0","1">>
Line004 == <<":","i","r","c",".","e","x","a","m","p","l","e",".","c","o","m"," ",
             "0","0","4"," ","m","y","n","i","c","k"," ","s"," ","v">>
LinePing     == <<"P","I","N","G"," ",":","a","b","c">>
LinePing2    == <<"P","I","N","G"," ",":","x","y">>
LinePingBare == <<"P","I","N","G">>
\* a NICK whose source is the client itself, before and after the 001
LineNick   == <<":","g","o","i","r","c","!","u","@","h"," ","N","I","C","K"," ",":","n","e","w">>
\* the same NICK with a source of the form nick@host, and a line that is a
\* prefix without a command
LineNickNoUser == <<":","g","o","i","r","c","@","h"," ","N","I","C","K"," ",":","n","e","w">>
LinePrefixOnly == <<":","g","o","i","r","c","@","h">>
\* a PRIVMSG for which the modelled user handler calls Shutdown
LineQuit   == <<":","b","o","b","!","u","@","h"," ","P","R","I","V","M","S","G"," ",
               "g","o","i","r","c"," ",":","!","q","u","i","t">>

\* "433 * taken :in use", and the same for the nick the client tried next
Line433      == <<"4","3","3"," ","*"," ","t","a","k","e","n"," ",":","i","n"," ","u","s","e">>
Line433Tried == <<"4","3","3"," ","*"," ","t","a","k","e","n","_"," ",":","i","n"," ","u","s","e">>
\* "431 * :No nickname given", "432 * b@d :Erroneous nickname" and a 437
\* without a nick
Line431 == <<"4","3","1"," ","*"," ",":","N","o"," ","n","i","c","k">>
Line432 == <<"4","3","2"," ","*"," ","b","@","d"," ",":","E","r","r">>
Line437Short == <<"4","3","7"," ","*">>
\* 433 for a nick of underscores only, and for that nick cut short
Line433UU == <<"4","3","3"," ","*"," ","_","_"," ",":","i","n"," ","u","s","e">>
Line433U  == <<"4","3","3"," ","*"," ","_"," ",":","i","n"," ","u","s","e">>

\* CTCP messages: ":bob!u@h PRIVMSG goirc :\001VERSION\001", the same with the
\* inner command FOO, the same from the server (no nick in the source), and
\* a CTCP reply ":bob!u@h NOTICE goirc :\001VERSION x\001"
LineCtcpVersion == <<":","b","o","b","!","u","@","h"," ","P","R","I","V","M","S","G"," ",
                     "g","o","i","r","c"," ",":","SOH","V","E","R","S","I","O","N","SOH">>
LineCtcpFoo     == <<":","b","o","b","!","u","@","h"," ","P","R","I","V","M","S","G"," ",
                     "g","o","i","r","c"," ",":","SOH","F","O","O","SOH">>
LineCtcpServer  == <<":","i","r","c",".","x"," ","P","R","I","V","M","S","G"," ",
                     "g","o","i","r","c"," ",":","SOH","V","E","R","S","I","O","N","SOH">>
LineCtcpReply   == <<":","b","o","b","!","u","@","h"," ","N","O","T","I","C","E"," ",
                     "g","o","i","r","c"," ",":","SOH","V","E","R","S","I","O","N"," ","x","SOH">>
\* CTCP actions: ":nick PRIVMSG me :\001ACTION waves\001", an ACTION without
\* text and without the trailing \001, an ACTION sent as a NOTICE, and a
\* PRIVMSG whose only argument is the CTCP text (no target)
LineAction         == <<":","n","i","c","k"," ","P","R","I","V","M","S","G"," ","m","e"," ",
                        ":","SOH","A","C","T","I","O","N"," ","w","a","v","e","s","SOH">>
LineActionBare     == <<":","b","o","b","!","u","@","h"," ","P","R","I","V","M","S","G"," ",
                        "#","c"," ",":","SOH","A","C","T","I","O","N">>
LineActionNotice   == <<":","b","o","b","!","u","@","h"," ","N","O","T","I","C","E"," ",
                        "m","e"," ",":","SOH","A","C","T","I","O","N"," ","x","SOH">>
LineActionNoTarget == <<":","b","o","b","!","u","@","h"," ","P","R","I","V","M","S","G"," ",
                        ":","SOH","A","C","T","I","O","N"," ","w","a","v","e","s","SOH">>

(***************************************************************************)
(* The state.                                                              *)
(***************************************************************************)
VARIABLES
    env,           \* what the environment does in this run, see Env
    connPc,        \* where the caller of Connect is
    connErr,       \* the error Connect returned, "" if none
    handleMe,      \* the me.Nick snapshot of the SafeConn Connect returned
    registry,      \* safeConnState.registry: the events with a user handler
    stateRegistry, \* Conn.stateRegistry: the commands with a state handler
    conn,          \* the Conn and its safeConnState, see NewConn
    rlocks,        \* holders of safeConnState's read lock
    scanned,       \* the lines the reader pump scanned from the socket
    rpPc,          \* reader pump: "off", "scan", "done"
    readErr,       \* the values buffered in the readErr channel
    rqClosed,      \* connReader's queue is closed
    rbuf,          \* the reader queue worker's buf
    rClosed,       \* the reader channel Conn.reader is closed
    ownerPc,       \* runLoop: "off", "select", "line", "invoke", "done"
    ownerCur,      \* the line or closure runLoop received
    dispatched,    \* the lines handed to processLine
    ran,           \* the closures runLoop ran
    wbuf,          \* the writer queue worker's buf
    wqClosed,      \* connWriter's queue is closed
    wpPc,          \* writer pump: "off", "recv", "write", "drain" (after a write
                   \* error), and returned: "done", or "failed" after an error
    wpCur,         \* the line the writer pump is writing
    writeErr,      \* the number of values buffered in the writeErr channel
    writeErrClosed,\* the writeErr channel is closed
    written,       \* the lines written to the socket
    pace,          \* connWriter's flood protection, see NoPace
    pingPc,        \* the pinger goroutine: "off", "wait" (for a tick), "done"
    submitted,     \* per context, the lines it sent on the writer channel
    ibuf,          \* invokerQueue's buf
    extPc,         \* the external goroutine holding a SafeConn: "idle", "locked"
    extCur,        \* the operation it is in
    extLog         \* the operations it completed, with their results

vars == <<env, connPc, connErr, handleMe, registry, stateRegistry, conn, rlocks,
          scanned, rpPc, readErr, rqClosed, rbuf, rClosed,
          ownerPc, ownerCur, dispatched, ran,
          wbuf, wqClosed, wpPc, wpCur, writeErr, writeErrClosed, written, pace,
          pingPc, submitted, ibuf, extPc, extCur, extLog>>

\* The Conn built by Connect (config.go:70-86), its safeConnState, the
\* process-wide lastNick, and what the modelled user handlers have seen.
\*   iCloses  the closes of the input channel of invokerQueue
\*   dials  the calls of dialServer
\*   nickInUse  Conn.nickInUse: "nil" or the kind of function, see NickInUseKinds
\*   out    the lines the running handler has sent on Conn.writer
\*   panic  the process died in a run-time panic
\*   log    the handlers run for the line being processed
NewConn ==
    [me |-> CfgNick, netconn |-> "nil", sockCloses |-> 0, wCloses |-> 0, iCloses |-> 0,
     stWriter |-> FALSE, stInvoker |-> FALSE, lastNick |-> <<>>,
     nInit |-> 0, nConn |-> 0, nDisc |-> 0, shutdowns |-> 0, shutCalls |-> 0,
     dials |-> 0, nickInUse |-> "nil",
     obs |-> {},
     out |-> <<>>, panic |-> FALSE, log |-> <<>>]

(***************************************************************************)
(* The owner context: Shutdown, the send primitives, the handlers.         *)
(***************************************************************************)
\* c.writer <- line, from the owner context (conn.go:116-167): a send on a
\* closed channel panics
Send(c, line) ==
    IF c.panic THEN c
    ELSE IF c.wCloses > 0 THEN [c EXCEPT !.panic = TRUE]
    ELSE [c EXCEPT !.out = Append(@, line)]

\* Conn.Connected
Connected(c) == c.netconn # "nil"

Mark(c, reg, ev) == [c EXCEPT !.log = Append(@, [reg |-> reg, ev |-> ev])]

RECURSIVE Shutdown(_), UserHandler(_, _, _)

\* safeConnState.registry.Dispatch(ev, c, line)
UserDispatch(ev, c, line) ==
    IF c.panic \/ ev \notin registry THEN c
    ELSE UserHandler(ev, Mark(c, "user", ev), line)

\* conn.go:105-109: close(c.writer) panics on a closed channel
CloseWriter(c) ==
    IF c.wCloses > 0 THEN [c EXCEPT !.panic = TRUE]
    ELSE [c EXCEPT !.wCloses = @ + 1, !.stWriter = FALSE, !.stInvoker = FALSE,
                   !.shutdowns = @ + 1]

\* Shutdown that leaves c.netconn set
ShutdownKeepsNetconn(c) ==
    IF c.panic THEN c
    ELSE IF c.netconn # "nil"
    THEN UserDispatch(DISCONNECTED,
                      CloseWriter([c EXCEPT !.sockCloses = @ + 1, !.shutCalls = @ + 1]),
                      parseLine(<<>>))
    ELSE [c EXCEPT !.shutCalls = @ + 1]

\* Conn.Shutdown
Shutdown(c) ==
    IF c.panic THEN c
    ELSE IF c.netconn # "nil"
    THEN UserDispatch(DISCONNECTED,
                      CloseWriter([c EXCEPT !.sockCloses = @ + 1, !.netconn = "nil",
                                            !.shutCalls = @ + 1]),
                      parseLine(<<>>))
    ELSE [c EXCEPT !.shutCalls = @ + 1]

\* The handlers the modelled Config.Init registers:
\*   001, NICK         read Conn.Me().Nick
\*   irc:action, irc:ctcp, irc:ctcpreply   keep the Line they are given
\*   irc:init, irc:connected   count the event
\*   irc:disconnected  counts the event and, the first time, calls Shutdown
\*   PRIVMSG           calls Shutdown
UserHandler(ev, c, line) ==
    CASE ev \in {Cmd001, CmdNICK, EvACTION, CTCP, CTCPREPLY} ->
            [c EXCEPT !.obs = @ \cup {[line |-> line, seen |-> c.me]}]
      [] ev = INIT         -> [c EXCEPT !.nInit = @ + 1]
      [] ev = CONNECTED    -> [c EXCEPT !.nConn = @ + 1]
      [] ev = DISCONNECTED -> IF c.nDisc = 0 THEN Shutdown([c EXCEPT !.nDisc = 1])
                              ELSE [c EXCEPT !.nDisc = @ + 1]
      [] ev = CmdPRIVMSG   -> Shutdown(c)
      [] OTHER             -> c

UserEvents == {Cmd001, CmdNICK, INIT, CONNECTED, DISCONNECTED, CmdPRIVMSG}

\* h_001 that also announces irc:connected
h_001Connected(c, line) ==
    IF Len(line.Args) > 0
    THEN UserDispatch(CONNECTED, [c EXCEPT !.me = line.Args[1]], line)
    ELSE Shutdown(c)

h_001(c, line) ==
    IF Len(line.Args) > 0 THEN [c EXCEPT !.me = line.Args[1]]
    ELSE Shutdown(c)

h_004(c, line) == UserDispatch(CONNECTED, c, line)

h_PING(c, line) ==
    IF Len(line.Args) > 0
    THEN Send(c, RawLine(<<"P","O","N","G"," ",":">> \o line.Args[1]))
    ELSE c

\* Line.SrcIsMe
SrcIsMe(line) == line.Src.Nick = line.me

h_NICK(c, line) ==
    IF Len(line.Args) > 0 /\ SrcIsMe(line) THEN [c EXCEPT !.me = line.Args[1]]
    ELSE c

h_MODE(c, line) == c

\* strings.LastIndexFunc(oldnick, r != '_'), 1-based, 0 if there is none
LastNonUnderscore(oldnick) ==
    IF \A i \in 1..Len(oldnick) : oldnick[i] = "_" \/ ~RuneStart(oldnick[i]) THEN 0
    ELSE CHOOSE i \in 1..Len(oldnick) :
            /\ oldnick[i] # "_" /\ RuneStart(oldnick[i])
            /\ \A j \in (i + 1)..Len(oldnick) : oldnick[j] = "_" \/ ~RuneStart(oldnick[j])

\* oldnick[:idx] + "_" + oldnick[idx+size:]
ReplaceRune(oldnick, idx) ==
    Take(oldnick, idx - 1) \o <<"_">>
    \o Drop(oldnick, idx - 1 + DecodeRune(Drop(oldnick, idx - 1)).size)

\* Conn.badNick: [c |-> the Conn afterwards, nick |-> the nick returned]
badNickTry(c, next) == [c |-> [c EXCEPT !.lastNick = next], nick |-> next]

badNickAt(c, oldnick, tooLong, idx) ==
    IF oldnick = <<>> \/ (tooLong /\ idx = 0)
    THEN [c |-> Shutdown(c), nick |-> <<>>]
    ELSE badNickTry(c, IF tooLong THEN ReplaceRune(oldnick, idx) ELSE oldnick \o <<"_">>)

\* badNick that always appends an underscore
badNickAppend(c, oldnick) == badNickAt(c, oldnick, FALSE, 0)

badNick(c, oldnick) ==
    badNickAt(c, oldnick, oldnick # c.lastNick /\ HasPrefix(c.lastNick, oldnick),
              LastNonUnderscore(oldnick))

\* The NickInUse functions of the modelled Configs: "suffix" returns the
\* old nick with a 2 appended; "shutdown" does the same after calling
\* Shutdown on the Conn a handler of the application kept.
NickInUseKinds == {"suffix", "shutdown"}
nickInUse(c, oldnick, errCode) ==
    [c |-> IF c.nickInUse = "shutdown" THEN Shutdown(c) ELSE c,
     nick |-> oldnick \o <<"2">>]

\* h_badNick that sends the nick without asking Connected
h_badNickSendAlways(r) == Send(r.c, composeNick(r.nick))

\* h_badNick after the nick was chosen
h_badNickSend(r) ==
    IF ~Connected(r.c) THEN r.c
    ELSE Send(r.c, composeNick(r.nick))

\* the nick h_badNick passes on: line.Args[1] of Go
ContestedNick(line, errCode) ==
    IF errCode # 431 /\ Len(line.Args) > 1 THEN line.Args[2] ELSE <<>>

h_badNick(c, line, errCode) ==
    h_badNickSend(IF c.nickInUse # "nil"
                  THEN nickInUse(c, ContestedNick(line, errCode), errCode)
                  ELSE badNick(c, ContestedNick(line, errCode)))

Cmd431 == <<"4","3","1">>
Cmd432 == <<"4","3","2">>
Cmd433 == <<"4","3","3">>
Cmd436 == <<"4","3","6">>
Cmd437 == <<"4","3","7">>

\* the error code h_431 .. h_437 pass to h_badNick
ErrCode(cmd) ==
    CASE cmd = Cmd431 -> 431
      [] cmd = Cmd432 -> 432
      [] cmd = Cmd433 -> 433
      [] cmd = Cmd436 -> 436
      [] cmd = Cmd437 -> 437

\* what time.Now().Format(time.UnixDate) returns in the model
TimeText == <<"M","o","n"," ","J","a","n"," ","2">>
VersionText == <<"g","o"," ","l","i","b","r","a","r","y"," ","k","b","a","l","l","a","r","d",
                 "/","g","o","i","r","c">>

\* the argument of the CTCP reply of defaultCTCPHandler
CTCPReplyText(line) ==
    CASE line.Args[1] = <<"P","I","N","G">> ->
            IF Len(line.Args) > 1 THEN line.Args[2] ELSE <<>>
      [] line.Args[1] = <<"T","I","M","E">> -> TimeText
      [] OTHER -> VersionText

defaultCTCPHandler(c, line) ==
    IF line.Command # CTCP THEN c
    ELSE IF line.Src.Nick = <<>> THEN c
    ELSE IF line.Args[1] \in {<<"P","I","N","G">>, <<"T","I","M","E">>,
                              <<"V","E","R","S","I","O","N">>}
    THEN Send(c, composeCTCP(line.Src.Nick, line.Args[1], CTCPReplyText(line), TRUE))
    ELSE c

\* Conn.setupStateHandlers
setupStateHandlers ==
    {Cmd001, Cmd004, CmdPING, CmdMODE, CmdNICK, Cmd431, Cmd432, Cmd433, Cmd436, Cmd437}

StateHandler(cmd, c, line) ==
    CASE cmd = Cmd001  -> h_001(c, line)
      [] cmd = Cmd004  -> h_004(c, line)
      [] cmd = CmdPING -> h_PING(c, line)
      [] cmd = CmdMODE -> h_MODE(c, line)
      [] cmd = CmdNICK -> h_NICK(c, line)
      [] cmd \in {Cmd431, Cmd432, Cmd433, Cmd436, Cmd437} ->
            h_badNick(c, line, ErrCode(cmd))
      [] OTHER         -> c

\* c.stateRegistry.Dispatch(cmd, c, line)
StateDispatch(cmd, c, line) ==
    IF c.panic \/ cmd \notin stateRegistry THEN c
    ELSE StateHandler(cmd, Mark(c, "state", cmd), line)

\* a rewrite that leaves the inner command among the arguments of an ACTION
RewriteCTCPKeepsCommand(line, args) ==
    [line EXCEPT !.Dst = line.Args[1],
                 !.Command = IF line.Command = CmdPRIVMSG
                             THEN (IF args[1] = <<"A","C","T","I","O","N">>
                                   THEN EvACTION ELSE CTCP)
                             ELSE CTCPREPLY,
                 !.Args = args]

\* the rewritten line of a CTCP message with inner text `args` (conn.go:254-270)
RewriteCTCP(line, args) ==
    IF line.Command = CmdPRIVMSG
    THEN IF args[1] = <<"A","C","T","I","O","N">>
         THEN [line EXCEPT !.Dst = line.Args[1], !.Command = EvACTION,
                   !.Args = IF Len(args) > 1 THEN <<args[2]>> ELSE << <<>> >>]
         ELSE [line EXCEPT !.Dst = line.Args[1], !.Command = CTCP, !.Args = args]
    ELSE [line EXCEPT !.Dst = line.Args[1], !.Command = CTCPREPLY, !.Args = args]

\* text[1:] without an optional trailing \001
CTCPText(text) ==
    IF HasSuffix(text, <<"SOH">>) THEN Take(text, Len(text) - 1) ELSE text

\* the CTCP detection of processLine (conn.go:246-272)
DetectCTCP(line) ==
    IF /\ line.Command \in {CmdPRIVMSG, CmdNOTICE}
       /\ Len(line.Args) > 1
       /\ HasPrefix(line.Args[Len(line.Args)], <<"SOH">>)
    THEN RewriteCTCP(line, SplitN2(CTCPText(Tail(line.Args[Len(line.Args)])), <<" ">>))
    ELSE line

\* the built-in CTCP handler whatever the user registry holds
AfterUserAlways(c, line) ==
    IF line.Command = CTCP
    THEN defaultCTCPHandler(Mark(c, "builtin", CTCP), line)
    ELSE c

\* conn.go:276-278: the built-in CTCP handler runs if no user handler did
AfterUser(c, line) ==
    IF line.Command \notin registry /\ line.Command = CTCP
    THEN defaultCTCPHandler(Mark(c, "builtin", CTCP), line)
    ELSE c

\* the user registry's handlers before the state registry's
DispatchLineUserFirst(c, line) ==
    Once(UserDispatch(line.Command, c, line), LAMBDA c1 :
        Once(StateDispatch(line.Command, c1, line), LAMBDA c2 : AfterUser(c2, line)))

\* conn.go:275-278: the state registry's handlers, then the user registry's
DispatchLine(c, line) ==
    Once(StateDispatch(line.Command, c, line), LAMBDA c1 :
        Once(UserDispatch(line.Command, c1, line), LAMBDA c2 : AfterUser(c2, line)))

processParsed(c, parsed) ==
    IF parsed.Command = <<>> THEN c
    ELSE Once(DetectCTCP([parsed EXCEPT !.me = c.me]), LAMBDA line :
              DispatchLine(c, line))

\* Conn.processLine
processLine(c, input) ==
    Once(parseLine(input), LAMBDA parsed : processParsed(c, parsed))

(***************************************************************************)
(* Bounds and inputs.                                                      *)
(***************************************************************************)
\* the lines the server sends before the connection ends
MaxLines == 2
\* the operations the external goroutine performs on its SafeConn
MaxOps == 2
\* the ticks of the pinger's ticker that arrive while the connection is open
MaxPings == 1

ServerLines == {Line001, Line001Bare, Line004, LinePing, LinePing2, LinePingBare,
                LineNick, LineQuit}

\* the closures passed to Invoke: f(c) does nothing, calls c.Shutdown(), or
\* sends with c.Raw
ClosureKinds == {"nop", "shutdown"}
\* the arguments of a send primitive: destination, CTCP command, body,
\* channels and keys
NoArgs == [dst |-> <<>>, cmd |-> <<>>, msg |-> <<>>, chans |-> <<>>, keys |-> <<>>]
ExtOps == [op : {"Connected"}, arg : {"-"}, in : {NoArgs}]
          \cup [op : {"Raw"}, arg : {"-"}, in : {NoArgs}]
          \cup [op : {"Invoke"}, arg : ClosureKinds, in : {NoArgs}]

\* the text of the external goroutine's n-th Raw
ExtText(n) == <<"X", " ">> \o <<CHOOSE d \in Digit : d = ToString(n)>>

\* the send primitives of the handle (safeconn.go:103-159)
SendPrims == {"Raw", "Privmsg", "Action", "CTCP", "CTCPReply", "Quit", "Nick", "Join", "Part"}

\* a call of a send primitive with arguments
SendOp(op, in) == [op |-> op, arg |-> "in", in |-> in]

\* the strings a send primitive of the handle puts on the writer channel; n
\* numbers the call
HandleSend(o, n) ==
    CASE o.op = "Raw" ->
            <<RawLine(IF o.arg = "-" THEN ExtText(n) ELSE o.in.msg)>>
      [] o.op = "Privmsg"   -> <<composePrivmsg(o.in.dst, o.in.msg)>>
      [] o.op = "Action"    -> <<composeCTCP(o.in.dst, <<"A","C","T","I","O","N">>,
                                             o.in.msg, FALSE)>>
      [] o.op = "CTCP"      -> <<composeCTCP(o.in.dst, o.in.cmd, o.in.msg, FALSE)>>
      [] o.op = "CTCPReply" -> <<composeCTCP(o.in.dst, o.in.cmd, o.in.msg, TRUE)>>
      [] o.op = "Quit"      -> <<composeQuit(o.in.msg)>>
      [] o.op = "Nick"      -> <<composeNick(o.in.msg)>>
      [] o.op = "Join"      -> IF Len(o.in.chans) > 0
                               THEN <<composeJoin(o.in.chans, o.in.keys)>> ELSE <<>>
      [] o.op = "Part"      -> IF Len(o.in.chans) > 0
                               THEN <<composePart(o.in.chans, o.in.msg)>> ELSE <<>>
      [] OTHER -> <<>>

Contexts == {"connect", "owner", "ext", "ping"}

(***************************************************************************)
(* Connect (config.go:53-121).                                             *)
(***************************************************************************)
\* the Config of example.go: User "goirc", RealName "goirc", no Password
CfgUser     == <<"g","o","i","r","c">>
CfgRealName == <<"g","o","i","r","c">>
CfgPassword == <<>>

\* The environment of a run:
\*   lines   the lines the server may send
\*   ops     the operations the external goroutine may perform
\*   wfail   a write to the open socket may fail
\*   handlers   the sets of events Config.Init may add handlers for
\*   user, realName, password   Config.User, Config.RealName, Config.Password
\*   hasInit    Config.Init is not nil
\*   allowFlood Config.AllowFlood
\*   nickInUse  Config.NickInUse: "nil" or one of NickInUseKinds
\*   pingInterval   Config.PingInterval in seconds; 0, the value in example.go,
\*              stands for three minutes
\*   ticks      the ticks of the pinger's ticker that arrive while the
\*              connection is open
Env(lines, ops, wfail) ==
    [lines |-> lines, ops |-> ops, wfail |-> wfail, handlers |-> {UserEvents},
     user |-> CfgUser, realName |-> CfgRealName, password |-> CfgPassword,
     hasInit |-> TRUE, allowFlood |-> TRUE, nickInUse |-> "nil",
     pingInterval |-> 0, ticks |-> 0]

\* Time is counted in ticks of 1/120 s, the grain of the penalty per byte.
TicksPerSecond == 120
\* const maxTimeDelta = 10 * time.Second
maxTimeDelta == 10 * TicksPerSecond
\* The clock is read up to MaxClock; between two readings no time or
\* five seconds pass.
MaxClock == 720
Elapsed == {0, 5 * TicksPerSecond}

\* connWriter's flood protection before it wrote a line:
\*   clock      the latest time the writer pump saw; it starts after the
\*              zero Time that floodTime starts at
\*   floodTime  the local floodTime
\*   lines      the lines paced so far
\*   now, before, len, sleep   for the last of them: the time.Now() read,
\*              floodTime before the advance, len(line), and the time slept
NoPace == [clock |-> 1, floodTime |-> 0, lines |-> 0, now |-> 0, before |-> 0,
           len |-> 0, sleep |-> 0]

InitWith(e) ==
    /\ env = e
    /\ connPc = "start"
    /\ connErr = ""
    /\ handleMe = <<>>
    /\ registry = {}
    /\ stateRegistry = {}
    /\ conn = [NewConn EXCEPT !.nickInUse = e.nickInUse]
    /\ rlocks = 0
    /\ scanned = <<>>
    /\ rpPc = "off"
    /\ readErr = <<>>
    /\ rqClosed = FALSE
    /\ rbuf = <<>>
    /\ rClosed = FALSE
    /\ ownerPc = "off"
    /\ ownerCur = <<>>
    /\ dispatched = <<>>
    /\ ran = <<>>
    /\ wbuf = <<>>
    /\ wqClosed = FALSE
    /\ wpPc = "off"
    /\ wpCur = <<>>
    /\ writeErr = 0
    /\ writeErrClosed = FALSE
    /\ written = <<>>
    /\ pace = NoPace
    /\ pingPc = "off"
    /\ submitted = [ctx \in Contexts |-> <<>>]
    /\ ibuf = <<>>
    /\ extPc = "idle"
    /\ extCur = <<>>
    /\ extLog = <<>>

\* a run-time panic in any goroutine ends the process
Alive == ~conn.panic

connVars   == <<env, connPc, connErr, handleMe, registry, stateRegistry>>
readerVars == <<scanned, rpPc, readErr, rqClosed, rbuf, rClosed>>
ownerVars  == <<ownerPc, ownerCur, dispatched, ran>>
writerVars == <<wbuf, wqClosed, wpPc, wpCur, writeErr, writeErrClosed, written, submitted>>
extVars    == <<extPc, extCur, extLog>>

\* A send of `lines` on the writer channel by context ctx, received by
\* connWriter's queue worker (config.go:169-199): with an empty buf the
\* worker hands the line to the pump if the pump is receiving, else buffers.
WriterAccept(ctx, lines) ==
    LET msgs == [i \in 1..Len(lines) |->
                    [ctx |-> ctx, n |-> Len(submitted[ctx]) + i, line |-> lines[i]]]
    IN  /\ submitted' = [submitted EXCEPT ![ctx] = @ \o lines]
        /\ \/ /\ wbuf' = wbuf \o msgs
              /\ UNCHANGED <<wpPc, wpCur>>
           \/ /\ Len(lines) = 1 /\ wbuf = <<>> /\ wpPc \in {"recv", "drain"}
              /\ wpPc' = IF wpPc = "recv" THEN "write" ELSE wpPc
              /\ wpCur' = IF wpPc = "recv" THEN msgs[1] ELSE wpCur
              /\ UNCHANGED wbuf

\* Connect that dials before it looks at Config.Init
ConnectDialFirst ==
    /\ Alive
    /\ connPc = "start"
    /\ \/ /\ connPc' = "failed"
          /\ connErr' = IF env.hasInit THEN "dial" ELSE "init"
          /\ conn' = [conn EXCEPT !.dials = @ + 1]
       \/ /\ env.hasInit
          /\ connPc' = "init"
          /\ conn' = [conn EXCEPT !.netconn = "open", !.dials = @ + 1]
          /\ UNCHANGED connErr
    /\ UNCHANGED <<pingPc, pace, env, handleMe, registry, stateRegistry, rlocks, readerVars, ownerVars,
                   writerVars, ibuf, extVars>>

\* Connect returns an error for a nil Config.Init; else dialServer fails, or
\* succeeds and Connect stores the socket
ConnectDial ==
    /\ Alive
    /\ connPc = "start"
    /\ \/ /\ ~env.hasInit
          /\ connPc' = "failed"
          /\ connErr' = "init"
          /\ UNCHANGED conn
       \/ /\ env.hasInit
          /\ connPc' = "failed"
          /\ connErr' = "dial"
          /\ conn' = [conn EXCEPT !.dials = @ + 1]
       \/ /\ env.hasInit
          /\ connPc' = "init"
          /\ conn' = [conn EXCEPT !.netconn = "open", !.dials = @ + 1]
          /\ UNCHANGED connErr
    /\ UNCHANGED <<pingPc, pace, env, handleMe, registry, stateRegistry, rlocks, readerVars, ownerVars,
                   writerVars, ibuf, extVars>>

\* config.Init(conn): the user's handlers are registered
ConnectInit ==
    /\ Alive
    /\ connPc = "init"
    /\ connPc' = "pumps"
    /\ registry' \in env.handlers
    /\ UNCHANGED <<pingPc, pace, env, connErr, handleMe, stateRegistry, conn, rlocks, readerVars,
                   ownerVars, writerVars, ibuf, extVars>>

\* go connWriter, go connReader, go invokerQueue, the safeConnState set up
\* under its lock, and go pinger unless Config.PingInterval is negative
ConnectPumps ==
    /\ Alive
    /\ connPc = "pumps"
    /\ rlocks = 0
    /\ connPc' = "events"
    /\ wpPc' = "recv"
    /\ rpPc' = "scan"
    /\ conn' = [conn EXCEPT !.stWriter = TRUE, !.stInvoker = TRUE]
    /\ pingPc' = IF env.pingInterval >= 0 THEN "wait" ELSE "off"
    /\ UNCHANGED <<pace, env, connErr, handleMe, registry, stateRegistry, rlocks, scanned, readErr,
                   rqClosed, rbuf, rClosed, ownerVars, wbuf, wqClosed, wpCur, writeErr,
                   writeErrClosed, written, submitted, ibuf, extVars>>

\* Dispatch(INIT, conn)
ConnectEvents ==
    /\ Alive
    /\ connPc = "events"
    /\ connPc' = "handlers"
    /\ conn' = UserDispatch(INIT, conn, parseLine(<<>>))
    /\ UNCHANGED <<pingPc, pace, env, connErr, handleMe, registry, stateRegistry, rlocks, readerVars,
                   ownerVars, writerVars, ibuf, extVars>>

\* conn.setupStateHandlers()
ConnectHandlers ==
    /\ Alive
    /\ connPc = "handlers"
    /\ connPc' = "login"
    /\ stateRegistry' = setupStateHandlers
    /\ UNCHANGED <<pingPc, pace, env, connErr, handleMe, registry, conn, rlocks, readerVars, ownerVars,
                   writerVars, ibuf, extVars>>

\* logIn that sends USER before NICK
logInUserFirst(c, user, real) ==
    Send(Send(c, RawLine(<<"U","S","E","R"," ">> \o user \o <<" ","8"," ","*"," ",":">>
                         \o real)),
         composeNick(c.me))

\* Conn.logIn
logInUser(c, user, real) ==
    Send(Send(c, composeNick(c.me)),
         RawLine(<<"U","S","E","R"," ">> \o user \o <<" ","8"," ","*"," ",":">> \o real))

logIn(c, realName, password) ==
    logInUser(IF password # <<>>
              THEN Send(c, RawLine(<<"P","A","S","S"," ",":">> \o password)) ELSE c,
              IF firstWord(env.user) = <<>> THEN <<"g","u","e","s","t">>
              ELSE firstWord(env.user),
              IF realName = <<>> THEN <<"g","u","e","s","t">> ELSE realName)

\* the Conn after a handler ran, and the lines it sent handed to the writer
Ran(ctx, c) ==
    /\ conn' = [c EXCEPT !.out = <<>>]
    /\ WriterAccept(ctx, c.out)

ConnectLogin ==
    /\ Alive
    /\ connPc = "login"
    /\ connPc' = "go"
    /\ Ran("connect", logIn(conn, env.realName, env.password))
    /\ UNCHANGED <<pingPc, pace, env, connErr, handleMe, registry, stateRegistry, rlocks, readerVars,
                   ownerVars, wqClosed, writeErr, writeErrClosed, written, ibuf, extVars>>

\* go conn.runLoop()
ConnectGo ==
    /\ Alive
    /\ connPc = "go"
    /\ connPc' = "ret"
    /\ ownerPc' = "select"
    /\ UNCHANGED <<pingPc, pace, env, connErr, handleMe, registry, stateRegistry, conn, rlocks, readerVars,
                   ownerCur, dispatched, ran, writerVars, ibuf, extVars>>

\* return conn.SafeConn(), nil: SafeConn() reads c.me on the caller's goroutine
\* while runLoop may be writing it; the racing read sees the old or the new value
ConnectReturn ==
    /\ Alive
    /\ connPc = "ret"
    /\ connPc' = "done"
    /\ handleMe' \in {conn.me} \cup
                     (IF ownerPc = "line" THEN {processLine(conn, ownerCur).me} ELSE {})
    /\ UNCHANGED <<pingPc, pace, env, connErr, registry, stateRegistry, conn, rlocks, readerVars, ownerVars,
                   writerVars, ibuf, extVars>>

(***************************************************************************)
(* The reader pump and its queue worker (config.go:233-282).               *)
(***************************************************************************)
\* scanner.Scan() returns a line and `queue <- text` hands it to the worker:
\* with an empty buf the worker hands it on if runLoop is receiving, else
\* buffers it
ReaderScan ==
    /\ Alive
    /\ rpPc = "scan"
    /\ Len(scanned) < MaxLines
    /\ \E line \in env.lines :
          /\ scanned' = Append(scanned, line)
          /\ \/ /\ rbuf' = Append(rbuf, line)
                /\ UNCHANGED <<ownerPc, ownerCur>>
             \/ /\ rbuf = <<>> /\ ownerPc = "select"
                /\ ownerPc' = "line"
                /\ ownerCur' = line
                /\ UNCHANGED rbuf
    /\ UNCHANGED <<pingPc, pace, connVars, conn, rlocks, rpPc, readErr, rqClosed, rClosed, dispatched,
                   ran, writerVars, ibuf, extVars>>

\* scanner.Scan() returns false (EOF or a read error): the error is put in
\* readErr, readErr and the queue are closed
ReaderEnd ==
    /\ Alive
    /\ rpPc = "scan"
    /\ rpPc' = "done"
    /\ readErr' = Append(readErr, "err")
    /\ rqClosed' = TRUE
    /\ UNCHANGED <<pingPc, pace, connVars, conn, rlocks, scanned, rbuf, rClosed, ownerVars, writerVars,
                   ibuf, extVars>>

\* a worker that sends the newest line of buf instead of the oldest
ReaderDeliverNewest ==
    /\ Alive
    /\ rbuf # <<>>
    /\ ownerPc = "select"
    /\ ownerPc' = "line"
    /\ ownerCur' = rbuf[Len(rbuf)]
    /\ rbuf' = Take(rbuf, Len(rbuf) - 1)
    /\ UNCHANGED <<pingPc, pace, connVars, conn, rlocks, scanned, rpPc, readErr, rqClosed, rClosed,
                   dispatched, ran, writerVars, ibuf, extVars>>

\* the worker's `c <- buf[0]` (in the loop or in the flush after it), received
\* by runLoop's select
ReaderDeliver ==
    /\ Alive
    /\ rbuf # <<>>
    /\ ownerPc = "select"
    /\ ownerPc' = "line"
    /\ ownerCur' = Head(rbuf)
    /\ rbuf' = Tail(rbuf)
    /\ UNCHANGED <<pingPc, pace, connVars, conn, rlocks, scanned, rpPc, readErr, rqClosed, rClosed,
                   dispatched, ran, writerVars, ibuf, extVars>>

\* the worker sees its queue closed, has flushed buf, and closes c
ReaderWorkerClose ==
    /\ Alive
    /\ rqClosed
    /\ rbuf = <<>>
    /\ ~rClosed
    /\ rClosed' = TRUE
    /\ UNCHANGED <<pingPc, pace, connVars, conn, rlocks, scanned, rpPc, readErr, rqClosed, rbuf,
                   ownerVars, writerVars, ibuf, extVars>>

(***************************************************************************)
(* The owner loop (conn.go:218-236).                                       *)
(***************************************************************************)
\* Shutdown takes the write lock of safeConnState: it waits for the readers
\* a Shutdown that does not wait for the write lock
LockIgnored(c) == TRUE

LockFree(c) == c.shutdowns > conn.shutdowns => rlocks = 0

\* runLoop called Shutdown before it returns
OwnerShut(c) == LockFree(c) /\ conn' = c

\* the owner context ran a handler
OwnerRan(c) == LockFree(c) /\ Ran("owner", c)

\* c.processLine(line)
RunLoopLine ==
    /\ Alive
    /\ ownerPc = "line"
    /\ \E c \in {processLine([conn EXCEPT !.log = <<>>], ownerCur)} : OwnerRan(c)
    /\ ownerPc' = "select"
    /\ ownerCur' = <<>>
    /\ dispatched' = Append(dispatched, ownerCur)
    /\ UNCHANGED <<pingPc, pace, connVars, rlocks, readerVars, ran, wqClosed, writeErr, writeErrClosed,
                   written, ibuf, extVars>>

\* case line, ok := <-c.reader with !ok
RunLoopReaderClosed ==
    /\ Alive
    /\ ownerPc = "select"
    /\ rClosed
    /\ OwnerShut(Shutdown([conn EXCEPT !.log = <<>>]))
    /\ ownerPc' = "done"
    /\ UNCHANGED <<pingPc, pace, connVars, rlocks, readerVars, ownerCur, dispatched, ran, writerVars,
                   ibuf, extVars>>

\* case _ = <-c.writeErr: a value, or the zero value of the closed channel
RunLoopWriteErr ==
    /\ Alive
    /\ ownerPc = "select"
    /\ writeErr > 0 \/ writeErrClosed
    /\ writeErr' = IF writeErr > 0 THEN writeErr - 1 ELSE 0
    /\ OwnerShut(Shutdown([conn EXCEPT !.log = <<>>]))
    /\ ownerPc' = "done"
    /\ UNCHANGED <<pingPc, pace, connVars, rlocks, readerVars, ownerCur, dispatched, ran, wbuf, wqClosed,
                   wpPc, wpCur, writeErrClosed, written, submitted, ibuf, extVars>>

\* case f := <-c.invoker, sent by invokerQueue's `output <- buf[0]`
RunLoopInvoker ==
    /\ Alive
    /\ ownerPc = "select"
    /\ ibuf # <<>>
    /\ ownerPc' = "invoke"
    /\ ownerCur' = Head(ibuf)
    /\ ibuf' = Tail(ibuf)
    /\ UNCHANGED <<pingPc, pace, connVars, conn, rlocks, readerVars, dispatched, ran, writerVars, extVars>>

\* the closure f(c)
Closure(kind, c) ==
    CASE kind = "shutdown" -> Shutdown(c)
      [] kind = "raw"      -> Send(c, RawLine(<<"h","i">>))
      [] OTHER             -> c

\* f(c)
RunLoopInvoke ==
    /\ Alive
    /\ ownerPc = "invoke"
    /\ OwnerRan(Closure(ownerCur.kind, [conn EXCEPT !.log = <<>>]))
    /\ ownerPc' = "select"
    /\ ownerCur' = <<>>
    /\ ran' = Append(ran, ownerCur)
    /\ UNCHANGED <<pingPc, pace, connVars, rlocks, readerVars, dispatched, wqClosed, writeErr,
                   writeErrClosed, written, ibuf, extVars>>

(***************************************************************************)
(* The writer pump and its queue worker (config.go:166-231).               *)
(***************************************************************************)
\* a worker that sends the newest line of buf instead of the oldest
WriterDeliverNewest ==
    /\ Alive
    /\ wbuf # <<>>
    /\ wpPc \in {"recv", "drain"}
    /\ wbuf' = Take(wbuf, Len(wbuf) - 1)
    /\ IF wpPc = "recv"
       THEN wpPc' = "write" /\ wpCur' = wbuf[Len(wbuf)]
       ELSE UNCHANGED <<wpPc, wpCur>>
    /\ UNCHANGED <<pingPc, pace, connVars, conn, rlocks, readerVars, ownerVars, wqClosed, writeErr,
                   writeErrClosed, written, submitted, ibuf, extVars>>

\* a pump that returns after a write error without draining its queue
WriterDeliverNoDrain ==
    /\ Alive
    /\ wbuf # <<>>
    /\ wpPc = "recv"
    /\ wbuf' = Tail(wbuf)
    /\ wpPc' = "write" /\ wpCur' = Head(wbuf)
    /\ UNCHANGED <<pingPc, pace, connVars, conn, rlocks, readerVars, ownerVars, wqClosed, writeErr,
                   writeErrClosed, written, submitted, ibuf, extVars>>

\* the worker's `queue <- buf[0]` (in the loop or in the flush after it): the
\* pump takes the line to write it, or discards it once it is draining
WriterDeliver ==
    /\ Alive
    /\ wbuf # <<>>
    /\ wpPc \in {"recv", "drain"}
    /\ wbuf' = Tail(wbuf)
    /\ IF wpPc = "recv"
       THEN wpPc' = "write" /\ wpCur' = Head(wbuf)
       ELSE UNCHANGED <<wpPc, wpCur>>
    /\ UNCHANGED <<pingPc, pace, connVars, conn, rlocks, readerVars, ownerVars, wqClosed, writeErr,
                   writeErrClosed, written, submitted, ibuf, extVars>>

\* the worker sees the writer channel closed, has flushed buf, and closes queue
WriterWorkerClose ==
    /\ Alive
    /\ conn.wCloses > 0
    /\ wbuf = <<>>
    /\ ~wqClosed
    /\ wqClosed' = TRUE
    /\ UNCHANGED <<pingPc, pace, connVars, conn, rlocks, readerVars, ownerVars, wbuf, wpPc, wpCur,
                   writeErr, writeErrClosed, written, submitted, ibuf, extVars>>

\* a flood protection that never sleeps
PaceNoSleep(p, line, d, over) ==
    LET now       == p.clock + d
        floodTime == Max(now, p.floodTime) + 2 * TicksPerSecond + Len(line)
    IN  [clock |-> now + over, floodTime |-> floodTime, lines |-> p.lines + 1,
         now |-> now, before |-> p.floodTime, len |-> Len(line), sleep |-> 0]

\* The flood protection for one line (config.go:207-219): time.Now() is read
\* d after the last reading, and <-time.After(...) returns `over` late.
\* time.Second * len(line) / 120 is len(line) ticks, cut to nanoseconds.
Pace(p, line, d, over) ==
    LET now       == p.clock + d
        floodTime == Max(now, p.floodTime) + 2 * TicksPerSecond + Len(line)
        delta     == floodTime - now
        sleep     == IF delta > maxTimeDelta THEN delta - maxTimeDelta ELSE 0
    IN  [clock |-> now + sleep + (IF sleep > 0 THEN over ELSE 0),
         floodTime |-> floodTime, lines |-> p.lines + 1,
         now |-> now, before |-> p.floodTime, len |-> Len(line), sleep |-> sleep]

\* the pump paces the line it holds unless allowFlood is set
WriterPace ==
    IF env.allowFlood THEN UNCHANGED pace
    ELSE \E d, over \in Elapsed :
            /\ d = 0 \/ pace.clock + d <= MaxClock
            /\ over = 0 \/ pace.clock + d + over <= MaxClock
            /\ pace' = Pace(pace, wpCur.line, d, over)

\* io.WriteString(nc, line+"\r\n") succeeds: only on an open socket
WriterWrite ==
    /\ Alive
    /\ wpPc = "write"
    /\ conn.sockCloses = 0
    /\ WriterPace
    /\ written' = Append(written, wpCur)
    /\ wpPc' = "recv"
    /\ wpCur' = <<>>
    /\ UNCHANGED <<pingPc, connVars, conn, rlocks, readerVars, ownerVars, wbuf, wqClosed, writeErr,
                   writeErrClosed, submitted, ibuf, extVars>>

\* the bytes io.WriteString puts on the socket for a line
WireBytes(line) == line \o <<"\r", "\n">>

\* io.WriteString fails: writeErr <- err; break; close(writeErr); then drain
WriterFail ==
    /\ Alive
    /\ wpPc = "write"
    /\ env.wfail \/ conn.sockCloses > 0
    /\ WriterPace
    /\ writeErr' = writeErr + 1
    /\ writeErrClosed' = TRUE
    /\ wpPc' = "drain"
    /\ wpCur' = <<>>
    /\ UNCHANGED <<pingPc, connVars, conn, rlocks, readerVars, ownerVars, wbuf, wqClosed, written,
                   submitted, ibuf, extVars>>

\* `range queue` ends on the closed queue: close(writeErr) after the first
\* loop, return after the second
WriterEnd ==
    /\ Alive
    /\ wpPc \in {"recv", "drain"}
    /\ wqClosed
    /\ wpPc' = IF wpPc = "recv" THEN "done" ELSE "failed"
    /\ writeErrClosed' = TRUE
    /\ UNCHANGED <<pingPc, pace, connVars, conn, rlocks, readerVars, ownerVars, wbuf, wqClosed, wpCur,
                   writeErr, written, submitted, ibuf, extVars>>

(***************************************************************************)
(* The thread-safe handle (safeconn.go:75-159), used by one goroutine.     *)
(***************************************************************************)
\* exec without the check of the writer
ExecNoCheck(c) == TRUE

\* the check of safeConn.exec under the read lock
ExecOk(c) == c.stWriter

ShutDone == conn.shutdowns > 0

\* exec: RLock, check c.state.writer != nil; if nil, RUnlock and return false
ExecBegin ==
    /\ Alive
    /\ connPc = "done"
    /\ extPc = "idle"
    /\ Len(extLog) < MaxOps
    /\ \E o \in env.ops :
          IF ExecOk(conn)
          THEN /\ extPc' = "locked"
               /\ extCur' = [op |-> o.op, arg |-> o.arg, in |-> o.in,
                             shutAtStart |-> ShutDone]
               /\ rlocks' = rlocks + 1
               /\ UNCHANGED extLog
          ELSE /\ extLog' = Append(extLog, [op |-> o.op, arg |-> o.arg, in |-> o.in,
                                            res |-> FALSE, sent |-> <<>>,
                                            shutAtStart |-> ShutDone,
                                            shutAtEnd |-> ShutDone])
               /\ UNCHANGED <<extPc, extCur, rlocks>>
    /\ UNCHANGED <<pingPc, pace, connVars, conn, readerVars, ownerVars, writerVars, ibuf>>

\* what f() of the running primitive sends on the writer channel
ExecSent == HandleSend(extCur, Len(submitted["ext"]) + 1)

\* exec: f() sends on the writer or invoker channel of safeConnState, then
\* return true and RUnlock.  A send on a nil channel never completes, a send
\* on a closed channel panics.
ExecEnd ==
    /\ Alive
    /\ extPc = "locked"
    /\ extPc' = "idle"
    /\ extCur' = <<>>
    /\ rlocks' = rlocks - 1
    /\ extLog' = Append(extLog, [op |-> extCur.op, arg |-> extCur.arg, in |-> extCur.in,
                                  res |-> TRUE,
                                  sent |-> IF conn.wCloses > 0 THEN <<>> ELSE ExecSent,
                                  shutAtStart |-> extCur.shutAtStart,
                                  shutAtEnd |-> ShutDone])
    /\ CASE extCur.op \in SendPrims /\ ExecSent # <<>> ->
              /\ conn.stWriter
              /\ IF conn.wCloses > 0
                 THEN conn' = [conn EXCEPT !.panic = TRUE] /\ UNCHANGED <<wbuf, wpPc, wpCur, submitted>>
                 ELSE WriterAccept("ext", ExecSent) /\ UNCHANGED conn
              /\ UNCHANGED ibuf
         [] extCur.op = "Invoke" ->
              /\ conn.stInvoker
              /\ ibuf' = Append(ibuf, [id |-> Len(extLog) + 1, kind |-> extCur.arg])
              /\ UNCHANGED <<conn, wbuf, wpPc, wpCur, submitted>>
         [] OTHER ->
              UNCHANGED <<conn, ibuf, wbuf, wpPc, wpCur, submitted>>
    /\ UNCHANGED <<pingPc, pace, connVars, readerVars, ownerVars, wqClosed, writeErr, writeErrClosed,
                   written>>

(***************************************************************************)
(* The pinger (config.go:312-322).                                         *)
(***************************************************************************)
\* "PING " + strconv.FormatInt(t.Unix(), 10) for the n-th tick
PingText(n) == <<"P","I","N","G"," ","1","7">> \o <<CHOOSE d \in Digit : d = ToString(n)>>

\* a pinger with the test of Raw's result inverted
PingerStopsOnTrue(ok) == IF ok THEN "done" ELSE "wait"

\* the pinger breaks out of its loop when Raw returned false
PingerNext(ok) == IF ok THEN "wait" ELSE "done"

\* t := <-ticker.C and conn.Raw(...) of the handle: exec takes the read lock,
\* checks the shared writer and sends under the lock; the queue worker of
\* connWriter takes the line.  The read lock is free unless Shutdown holds
\* the write lock, and Shutdown is one step of the owner.
PingerTick ==
    /\ Alive
    /\ pingPc = "wait"
    /\ Len(submitted["ping"]) < env.ticks \/ ~ExecOk(conn)
    /\ pingPc' = PingerNext(ExecOk(conn))
    /\ IF ExecOk(conn)
       THEN WriterAccept("ping", <<RawLine(PingText(Len(submitted["ping"]) + 1))>>)
       ELSE UNCHANGED <<wbuf, wpPc, wpCur, submitted>>
    /\ UNCHANGED <<pace, connVars, conn, rlocks, readerVars, ownerVars, wqClosed, writeErr,
                   writeErrClosed, written, ibuf, extVars>>

(***************************************************************************)
(* The system.                                                             *)
(***************************************************************************)
Next ==
    \/ ConnectDial \/ ConnectInit \/ ConnectPumps \/ ConnectEvents
    \/ ConnectHandlers \/ ConnectLogin \/ ConnectGo \/ ConnectReturn
    \/ ReaderScan \/ ReaderEnd \/ ReaderDeliver \/ ReaderWorkerClose
    \/ RunLoopLine \/ RunLoopReaderClosed \/ RunLoopWriteErr
    \/ RunLoopInvoker \/ RunLoopInvoke
    \/ WriterDeliver \/ WriterWorkerClose \/ WriterWrite \/ WriterFail \/ WriterEnd
    \/ ExecBegin \/ ExecEnd
    \/ PingerTick

\* The life cycle: the triggers of Shutdown (a handler, a closure, the end of
\* the input, a write error) against the handle's operations.
Init == InitWith(Env({LineQuit}, ExtOps, TRUE))

Spec == Init /\ [][Next]_vars

\* The owner loop to its end: lines that end the connection, and PINGs.
InitLoop ==
    InitWith(Env({Line001Bare, LineQuit, LinePing, LinePingBare}, ExtOps, TRUE))

SpecLoop == InitLoop /\ [][Next]_vars

\* The goroutines of the program keep running while they can take a step:
\* the caller of Connect, the reader's queue worker, runLoop, the writer pump
\* with its worker, and a handle operation that holds the read lock.  What
\* the server sends and when the input ends is not the program's to decide.
Fairness ==
    /\ WF_vars(ConnectDial \/ ConnectInit \/ ConnectPumps \/ ConnectEvents
                \/ ConnectHandlers \/ ConnectLogin \/ ConnectGo \/ ConnectReturn)
    /\ WF_vars(ReaderDeliver \/ ReaderWorkerClose)
    /\ WF_vars(RunLoopLine \/ RunLoopReaderClosed \/ RunLoopWriteErr
                \/ RunLoopInvoker \/ RunLoopInvoke)
    /\ WF_vars(WriterDeliver \/ WriterWorkerClose \/ WriterWrite \/ WriterFail
                \/ WriterEnd)
    /\ WF_vars(ExecEnd)

\* The end of the connection under fair scheduling.
InitFair ==
    InitWith(Env({Line001Bare, LinePing}, {o \in ExtOps : o.arg = "nop"}, TRUE))

FairSpec == InitFair /\ [][Next]_vars /\ Fairness

\* The writer to its end: the owner answers PINGs and leaves by the end of
\* the input or by a write error, or a handler shuts the connection down and
\* the owner sends nothing; the handle sends with Raw.
\* The writer pump and its worker keep running, as do a handle operation
\* that holds the read lock and a handler or closure the owner runs.
InitDrain ==
    \E lines \in {{LineQuit}, {LinePing}} :
       InitWith(Env(lines, {o \in ExtOps : o.op = "Raw" \/ o.arg = "nop"}, TRUE))

DrainFairness ==
    /\ WF_vars(WriterDeliver \/ WriterWorkerClose \/ WriterWrite \/ WriterFail
                \/ WriterEnd)
    /\ WF_vars(ExecEnd)
    /\ WF_vars(RunLoopLine \/ RunLoopInvoke)

SpecDrain == InitDrain /\ [][Next]_vars /\ DrainFairness

\* The goroutines Connect leaves behind: every goroutine keeps running while
\* it can take a step, and a Scan on the socket that Shutdown closed returns.
InitLeak == InitWith(Env({LinePing}, {o \in ExtOps : o.arg = "nop"}, TRUE))

LeakFairness == Fairness /\ WF_vars(conn.sockCloses > 0 /\ ReaderEnd)

SpecLeak == InitLeak /\ [][Next]_vars /\ LeakFairness

\* The two queues: distinct lines from the server, sends from three contexts.
InitOrder ==
    InitWith(Env({LinePing, LinePing2},
                 {o \in ExtOps : o.op = "Raw" \/ o.arg = "nop"}, TRUE))

SpecOrder == InitOrder /\ [][Next]_vars

\* The built-in handlers of registration and of nick changes.
InitProto ==
    InitWith(Env({Line001, Line001Bare, Line004, LineNick},
                 {o \in ExtOps : o.arg = "nop"}, FALSE))

SpecProto == InitProto /\ [][Next]_vars

\* Nick collisions: 433 lines for a nick, for the nick tried next, and for
\* nicks of underscores.
InitNick ==
    InitWith(Env({Line433, Line433Tried, Line433UU, Line433U},
                 {o \in ExtOps : o.arg = "nop"}, TRUE))

SpecNick == InitNick /\ [][Next]_vars

\* CTCP messages, with and without a user handler for irc:ctcp.
InitCtcp ==
    InitWith([Env({LineCtcpVersion, LineCtcpFoo, LineCtcpServer, LineCtcpReply},
                  {o \in ExtOps : o.arg = "nop"}, TRUE)
              EXCEPT !.handlers = {UserEvents, UserEvents \cup {CTCP}}])

SpecCtcp == InitCtcp /\ [][Next]_vars

\* the calls of send primitives an application may make, with hostile
\* arguments: separators, line ends and NUL inside destinations, commands,
\* bodies, channels and keys
SendMenu ==
    { SendOp("Privmsg", [NoArgs EXCEPT !.dst = <<"#","x","\r","\n","Q","U","I","T">>,
                                       !.msg = <<"h","i">>]),
      SendOp("Privmsg", [NoArgs EXCEPT !.dst = <<"#","NUL","x"," ","y">>,
                                       !.msg = <<"a","\n","b">>]),
      SendOp("Privmsg", [NoArgs EXCEPT !.dst = <<>>, !.msg = <<"h","i">>]),
      SendOp("Action", [NoArgs EXCEPT !.dst = <<"#","x","\n","y">>,
                                      !.msg = <<"h","i","\r","z">>]),
      SendOp("CTCP", [NoArgs EXCEPT !.dst = <<"n"," ","k">>,
                                    !.cmd = <<"P","I","N","G"," ","x">>,
                                    !.msg = <<"1","\r","\n","2">>]),
      SendOp("CTCPReply", [NoArgs EXCEPT !.dst = <<"n">>, !.cmd = <<"V","\n","X">>]),
      SendOp("Join", [NoArgs EXCEPT !.chans = << <<"#","a",",","#","b">>,
                                                 <<"#","c"," ","d">> >>,
                                    !.keys = << <<"k"," ","k">>, <<"j",",","k">> >>]),
      SendOp("Join", NoArgs),
      SendOp("Join", [NoArgs EXCEPT !.chans = << <<"#","a","\r","\n","Q","U","I","T">> >>]),
      SendOp("Part", [NoArgs EXCEPT !.chans = << <<"#","a",",","#","b">>,
                                                 <<"#","c","\n","d">> >>,
                                    !.msg = <<"b","y","e","\r","\n","Q","U","I","T">>]),
      SendOp("Part", [NoArgs EXCEPT !.chans = << <<"#","a">> >>]),
      SendOp("Quit", [NoArgs EXCEPT !.msg = <<"b","y","e","\n","x">>]),
      SendOp("Quit", NoArgs),
      SendOp("Nick", [NoArgs EXCEPT !.msg = <<"n","\r","\n","Q","U","I","T">>]),
      SendOp("Raw", [NoArgs EXCEPT !.msg = <<"A","\r","\n","B">>]) }

\* the primitives one application uses
SendKinds == {{"Privmsg"}, {"Join"}, {"Action", "CTCP", "CTCPReply"}, {"Part"},
              {"Quit", "Nick"}, {"Raw", "Invoke"}}

\* An application that calls send primitives with hostile arguments.
InitSend ==
    \E kinds \in SendKinds :
        InitWith(Env({LineQuit},
                     {o \in SendMenu \cup ExtOps : o.op \in kinds /\ o.arg \in {"in", "nop"}},
                     TRUE))
SpecSend == InitSend /\ [][Next]_vars

\* n bytes of text
Fill(n) == [i \in 1..n |-> "a"]

\* calls whose line is longer than MaxMessage: a 2-byte rune across the
\* cut, U+FFFD right before the cut, and a body with a NUL and a rune that
\* ends at the cut
LongMenu ==
    { SendOp("Raw", [NoArgs EXCEPT !.msg = Fill(MaxMessage - 1) \o <<"C3","A9","z">>]),
      SendOp("Raw", [NoArgs EXCEPT !.msg = Fill(MaxMessage - 3) \o <<"EF","BF","BD","z">>]),
      SendOp("Privmsg", [NoArgs EXCEPT !.dst = <<"#","x">>,
                                       !.msg = Fill(MaxMessage - 14) \o <<"NUL","E2","82","AC">>
                                               \o <<"z","\r","\n","z">>]) }

\* An application whose lines are longer than a line may be: one long call
\* of the handle, or a long real name.
InitLong ==
    \/ \E o \in LongMenu : InitWith(Env({LinePing}, {o}, TRUE))
    \/ InitWith([Env({LinePing}, {o \in ExtOps : o.arg = "nop"}, TRUE)
                 EXCEPT !.realName = Fill(MaxMessage)])
SpecLong == InitLong /\ [][Next]_vars

\* A connection with flood protection: three login lines, PINGs to answer
\* and lines of the handle.
InitFlood ==
    InitWith([Env({LinePing}, {o \in ExtOps : o.op = "Raw" \/ o.arg = "nop"}, TRUE)
              EXCEPT !.allowFlood = FALSE, !.password = <<"p","w">>])
SpecFlood == InitFlood /\ [][Next]_vars

\* A server that refuses nicks, for a Config without and with NickInUse.
InitBadNick ==
    \E k \in {"nil"} \cup NickInUseKinds,
       lines \in {{Line431, Line432}, {Line433, Line437Short}} :
        InitWith([Env(lines, {o \in ExtOps : o.arg = "nop"}, TRUE)
                  EXCEPT !.nickInUse = k])
SpecBadNick == InitBadNick /\ [][Next]_vars

\* A goroutine that uses the handle while the owner shuts down, under fair
\* scheduling.
InitRace ==
    InitWith(Env({LineQuit}, {o \in ExtOps : o.op = "Raw" \/ o.arg = "shutdown"}, FALSE))
\* the goroutine of the handle and the owner loop keep running
RaceFairness == WF_vars(ExecEnd) /\ WF_vars(RunLoopLine)
SpecRace == InitRace /\ [][Next]_vars /\ RaceFairness

\* CTCP messages and replies for an application that handles irc:action,
\* irc:ctcp and irc:ctcpreply.
InitDemux ==
    \E lines \in {{LineAction, LineActionNoTarget}, {LineActionBare, LineCtcpVersion},
                  {LineActionNotice, LineCtcpReply}} :
        InitWith([Env(lines, {o \in ExtOps : o.arg = "nop"}, TRUE)
                  EXCEPT !.handlers = {UserEvents \cup {EvACTION, CTCP, CTCPREPLY}}])
SpecDemux == InitDemux /\ [][Next]_vars

\* Sources of the forms nick!user@host, nick@host and a server name, and a
\* line without a command.
InitSource ==
    InitWith(Env({LineNick, LineNickNoUser, LinePrefixOnly, Line001},
                 {o \in ExtOps : o.arg = "nop"}, TRUE))
SpecSource == InitSource /\ [][Next]_vars

\* A connection with the pinger disabled, and one whose ticker ticks while
\* the connection is open and after a handler or the owner loop shut it down.
InitPing ==
    \E pi \in {-1, 1} :
        InitWith([Env({LineQuit}, {o \in ExtOps : o.arg = "nop"}, FALSE)
                  EXCEPT !.pingInterval = pi, !.ticks = MaxPings])
\* the ticker keeps ticking
PingFairness == WF_vars(PingerTick)
SpecPing == InitPing /\ [][Next]_vars /\ PingFairness

\* The start of a connection: with and without an Init callback, a password,
\* a user and a real name.
InitLogin ==
    \E init \in BOOLEAN, pw \in {<<>>, <<"p","w">>}, name \in {<<>>, <<"m","e"," ","x">>} :
        InitWith([Env({Line001, LinePing}, {o \in ExtOps : o.arg = "nop"}, TRUE)
                  EXCEPT !.hasInit = init, !.password = pw, !.user = name,
                         !.realName = name])

SpecLogin == InitLogin /\ [][Next]_vars

(***************************************************************************)
(* The claims.                                                             *)
(***************************************************************************)
\* C1: an operation on the thread-safe handle that starts after Shutdown has
\* completed returns false (and never gets past the check of exec), and one
\* that completes after the writer was installed and before Shutdown begins
\* returns true.
C1_HandleResult ==
    /\ \A i \in 1..Len(extLog) :
          /\ extLog[i].shutAtStart => ~extLog[i].res
          /\ ~extLog[i].shutAtEnd => extLog[i].res
    /\ extPc = "locked" => ~extCur.shutAtStart

\* both cases in one run: a true result, then a false one after Shutdown
C1_Witness ==
    \E i, j \in 1..Len(extLog) :
        /\ i < j
        /\ extLog[i].res /\ ~extLog[i].shutAtEnd
        /\ ~extLog[j].res /\ extLog[j].shutAtStart

\* C2: Shutdown is idempotent.  However many times and from wherever it is
\* called, the socket is closed once, the writer channel is closed once and
\* irc:disconnected is dispatched once; a later call, the one from inside
\* the irc:disconnected handler included, changes nothing.
C2_ShutdownOnce ==
    /\ conn.shutCalls = 0 =>
          conn.sockCloses = 0 /\ conn.wCloses = 0 /\ conn.nDisc = 0
    /\ conn.shutCalls > 0 =>
          /\ conn.sockCloses = 1 /\ conn.wCloses = 1 /\ conn.nDisc = 1
          /\ ~conn.panic
          /\ Shutdown(conn) = [conn EXCEPT !.shutCalls = @ + 1]

\* Shutdown was called by a handler, by the irc:disconnected handler it
\* dispatched, and by runLoop on its way out
C2_Witness == conn.shutCalls >= 3 /\ ownerPc = "done" /\ conn.nDisc = 1

\* the reader pump hit EOF or a read error, or the writer pump a write error
PumpFailed == rpPc = "done" \/ wpPc \in {"drain", "failed"}

\* C3: once the reader pump has hit EOF or a read error, or the writer pump a
\* write error, then under fair scheduling runLoop eventually has called
\* Shutdown, irc:disconnected has been dispatched, and runLoop has returned.
C3_LoopEnds == PumpFailed ~> (ownerPc = "done" /\ conn.nDisc = 1)

\* C4: after a disconnect the owner loop still runs every line the reader
\* pump had queued and every closure Invoke accepted: it does not return
\* while one of them is waiting.
C4_NothingDropped ==
    [][ownerPc # "done" /\ ownerPc' = "done" => rbuf = <<>> /\ ibuf = <<>>]_vars

IsPrefix(s, t) == Len(s) <= Len(t) /\ SubSeq(t, 1, Len(s)) = s

\* the lines runLoop has received, the one it is processing included
Received == IF ownerPc = "line" THEN Append(dispatched, ownerCur) ELSE dispatched

\* C5: the lines handed to processLine are the lines the scanner produced, in
\* arrival order, none twice and none skipped: a prefix of the scanned lines.
C5_ReaderOrder == IsPrefix(Received, scanned)

\* two different lines were buffered, then flushed in order after the close
C5_Witness ==
    /\ Len(dispatched) = 2 /\ dispatched[1] # dispatched[2]
    /\ rClosed

\* C6: the lines one context submitted are written to the socket in the
\* order it submitted them, each at most once, whatever the other contexts
\* submit in between and also when they are flushed after the close.
C6_WriterOrder ==
    /\ \A i, j \in 1..Len(written) :
          i < j /\ written[i].ctx = written[j].ctx => written[i].n < written[j].n
    /\ \A i \in 1..Len(written) :
          /\ written[i].n <= Len(submitted[written[i].ctx])
          /\ written[i].line = submitted[written[i].ctx][written[i].n]

\* lines of all three contexts were written, the last after the close
C6_Witness ==
    /\ {written[i].ctx : i \in 1..Len(written)} = {"connect", "owner", "ext"}
    /\ \E i, j \in 1..Len(written) : i < j /\ written[i].ctx = written[j].ctx
    /\ wqClosed

\* C7: for one line, every handler of the state registry has completed
\* before a handler of the user registry starts, so a user handler for 001
\* or for the connection's own NICK sees the new nick in Me().Nick.
C7_StateFirst ==
    /\ \A i, j \in 1..Len(conn.log) :
          i < j /\ conn.log[j].reg = "state" /\ conn.log[i].ev = conn.log[j].ev
             => conn.log[i].reg # "user"
    /\ \A o \in conn.obs :
          /\ o.line.Command = Cmd001 /\ Len(o.line.Args) > 0 => o.seen = o.line.Args[1]
          /\ o.line.Command = CmdNICK /\ SrcIsMe(o.line) /\ Len(o.line.Args) > 0
                => o.seen = o.line.Args[1]

\* user handlers ran for 001 and for the connection's own NICK
C7_Witness ==
    /\ \E o \in conn.obs : o.line.Command = Cmd001 /\ o.seen = MyNick
    /\ \E o \in conn.obs : o.line.Command = CmdNICK /\ o.seen = NewNick

\* C8: once runLoop has started, me and netconn are touched by the owner
\* context only: the caller of Connect does not read me for the SafeConn it
\* returns while a handler of the owner context is writing it.
C8_OwnerOnly ==
    ~(/\ connPc = "ret"
      /\ ownerPc = "line"
      /\ processLine(conn, ownerCur).me # conn.me)

\* C9: after `:irc.example.com 001 mynick :Welcome` and then a 004 line the
\* connection's nick is mynick and irc:connected was dispatched exactly
\* once; a 001 without arguments shuts the connection down.
C9_Registration ==
    /\ dispatched = <<Line001, Line004>> => conn.me = MyNick /\ conn.nConn = 1
    /\ Len(dispatched) > 0 /\ dispatched[1] = Line001Bare =>
          ~Connected(conn) /\ conn.shutdowns = 1

C9_Witness == dispatched = <<Line001, Line004>> /\ conn.nConn = 1

\* the same for the shutdown by a 001 without arguments
C9_WitnessBare == dispatched = <<Line001Bare>> /\ ~Connected(conn)

RECURSIVE ExpectedPongs(_)
\* the replies the dispatched PING lines call for
ExpectedPongs(lines) ==
    IF lines = <<>> THEN <<>>
    ELSE (IF parseLine(Head(lines)).Command = CmdPING /\ Len(parseLine(Head(lines)).Args) > 0
          THEN << <<"P","O","N","G"," ",":">> \o parseLine(Head(lines)).Args[1] >>
          ELSE <<>>)
         \o ExpectedPongs(Tail(lines))

\* C10: every dispatched PING with at least one argument enqueues exactly
\* one line `PONG :<arg0>` on the writer, a PING without arguments nothing.
C10_PingPong == submitted["owner"] = ExpectedPongs(dispatched)

\* the NICK line for a nick, as it is put on the writer channel
NickLine(nick) == <<"N","I","C","K"," ",":">> \o nick

\* C11, as the code has it: after `433 * taken :in use` the client sends a
\* NICK for taken_.  A second 433 that names taken again (the server cut the
\* nick short) sends a NICK for take_, one that names taken_ sends a NICK
\* for taken__.  After a candidate of underscores only, a 433 that names a
\* shorter nick of underscores calls Shutdown and sends no NICK.
C11_NickCollision ==
    /\ Len(dispatched) >= 1 /\ dispatched[1] = Line433 =>
          /\ Len(submitted["owner"]) >= 1
          /\ submitted["owner"][1] = NickLine(<<"t","a","k","e","n","_">>)
    /\ dispatched = <<Line433, Line433>> =>
          submitted["owner"] = <<NickLine(<<"t","a","k","e","n","_">>),
                                 NickLine(<<"t","a","k","e","_">>)>>
    /\ dispatched = <<Line433, Line433Tried>> =>
          submitted["owner"] = <<NickLine(<<"t","a","k","e","n","_">>),
                                 NickLine(<<"t","a","k","e","n","_","_">>)>>
    /\ dispatched = <<Line433UU, Line433U>> =>
          /\ submitted["owner"] = <<NickLine(<<"_","_","_">>)>>
          /\ ~Connected(conn) /\ conn.shutdowns = 1

\* the second 433, after a cut nick, was answered
C11_Witness ==
    /\ dispatched = <<Line433, Line433>>
    /\ Len(submitted["owner"]) = 2
    /\ conn.lastNick = <<"t","a","k","e","_">>

\* a run gave up on a nick of underscores
C11_WitnessGaveUp == dispatched = <<Line433UU, Line433U>> /\ ~Connected(conn)

\* C11 as stated: the second 433 is answered with a NICK for take__
C11_AsStated ==
    Len(dispatched) = 2 /\ dispatched[1] = Line433
        /\ dispatched[2] \in {Line433, Line433Tried} =>
            /\ Len(submitted["owner"]) = 2
            /\ submitted["owner"][2] = NickLine(<<"t","a","k","e","_","_">>)

\* the built-in CTCP handler ran for the line just processed
BuiltinRan(c) == \E i \in 1..Len(c.log) : c.log[i].reg = "builtin"

\* the line processLine dispatches for an input
Dispatched(input) == DetectCTCP(parseLine(input))

\* C12: processing a line invokes the built-in CTCP handler if and only if
\* the command of the dispatched line is irc:ctcp and the user registry has
\* no subscriber for irc:ctcp; invoked for a line without a source nick, or
\* with an inner command other than PING, TIME and VERSION, it sends nothing.
C12_BuiltinCtcp ==
    [][dispatched' # dispatched =>
          /\ BuiltinRan(conn') <=>
                (Dispatched(ownerCur).Command = CTCP /\ CTCP \notin registry)
          /\ /\ BuiltinRan(conn')
             /\ \/ Dispatched(ownerCur).Src.Nick = <<>>
                \/ Dispatched(ownerCur).Args[1] \notin
                       {<<"P","I","N","G">>, <<"T","I","M","E">>,
                        <<"V","E","R","S","I","O","N">>}
             => submitted'["owner"] = submitted["owner"]]_vars

\* the built-in handler ran twice: it sent nothing for the server's message
\* and answered the VERSION of bob
C12_Witness ==
    /\ BuiltinRan(conn)
    /\ dispatched = <<LineCtcpServer, LineCtcpVersion>>
    /\ Len(submitted["owner"]) = 1

\* the login lines of the spec for the Config of the run
LoginLines ==
    (IF env.password # <<>> THEN << <<"P","A","S","S"," ",":">> \o env.password >>
     ELSE <<>>)
    \o << <<"N","I","C","K"," ",":">> \o CfgNick,
          <<"U","S","E","R"," ">>
          \o (IF env.user = <<>> THEN <<"g","u","e","s","t">> ELSE <<"m","e">>)
          \o <<" ","8"," ","*"," ",":">>
          \o (IF env.realName = <<>> THEN <<"g","u","e","s","t">> ELSE env.realName) >>

\* C13: Connect calls Init, then starts the pumps and installs the shared
\* writer and invoker, then dispatches irc:init, then installs the state
\* handlers, then enqueues PASS (only with a password), NICK and USER in
\* this order, and only then starts the owner loop: no line of the server is
\* dispatched before the state handlers are installed and the login lines
\* are enqueued.
C13_ConnectOrder ==
    /\ wpPc # "off" \/ rpPc # "off" \/ conn.stWriter \/ conn.stInvoker
          => registry \in env.handlers
    /\ conn.nInit > 0 =>
          /\ conn.nInit = 1 /\ wpPc # "off" /\ rpPc # "off"
          /\ conn.shutdowns = 0 => conn.stWriter /\ conn.stInvoker
    /\ stateRegistry # {} => conn.nInit = 1
    /\ submitted["connect"] # <<>> =>
          stateRegistry = setupStateHandlers /\ submitted["connect"] = LoginLines
    /\ ownerPc # "off" \/ dispatched # <<>> =>
          stateRegistry = setupStateHandlers /\ submitted["connect"] = LoginLines

\* runLoop processes its first line after a login with PASS, NICK and USER
C13_Witness ==
    /\ ownerPc = "line" /\ dispatched = <<>>
    /\ env.password # <<>> /\ env.user # <<>>
    /\ Len(submitted["connect"]) = 3

\* C14: a Connect that fails leaves nothing behind.  With a nil Init it
\* returns an error without dialing; when dialing fails it returns the
\* error and no connection object, and has not called Init, started a pump
\* or dispatched an event; and once Init was called Connect returns no error.
C14_ConnectErrors ==
    /\ ~env.hasInit =>
          /\ conn.dials = 0 /\ connPc \in {"start", "failed"}
          /\ connPc = "failed" => connErr = "init"
    /\ connErr = "dial" => conn.dials = 1 /\ ~Connected(conn)
    /\ connPc = "failed" <=> connErr # ""
    /\ connPc = "failed" =>
          /\ handleMe = <<>> /\ registry = {} /\ stateRegistry = {}
          /\ wpPc = "off" /\ rpPc = "off" /\ ownerPc = "off"
          /\ ~conn.stWriter /\ ~conn.stInvoker
          /\ conn.nInit = 0 /\ conn.nConn = 0 /\ conn.nDisc = 0
          /\ \A ctx \in Contexts : submitted[ctx] = <<>>
    /\ registry # {} => connErr = "" /\ conn.dials = 1
    /\ connPc = "done" => connErr = "" /\ handleMe # <<>>

\* Connect returned the error of dialServer
C14_Witness == connPc = "failed" /\ connErr = "dial" /\ conn.dials = 1

\* Connect returned the error for a nil Init
C14_WitnessNoInit == connPc = "failed" /\ connErr = "init"

\* the longest prefix of s that holds no byte of stops
Clamp(s, stops) ==
    Take(s, CHOOSE n \in 0..Len(s) :
                /\ \A i \in 1..n : s[i] \notin stops
                /\ n = Len(s) \/ s[n + 1] \in stops)
\* the first token of a destination and the first line of a body
Token(s) == Clamp(s, {" ", "\r", "\n"})
BodyLine(s) == Clamp(s, {"\r", "\n"})
\* the first channel name of a token
Name(s) == Clamp(Token(s), {","})
NoNul(s) == SelectSeq(s, LAMBDA b : b # "NUL")
RECURSIVE Names(_)
Names(list) ==
    IF list = <<>> THEN <<>>
    ELSE Name(list[1]) \o (IF Len(list) > 1 THEN <<",">> ELSE <<>>) \o Names(Tail(list))

\* the verb and the target field a call must put on the wire
Verb(e) ==
    CASE e.op \in {"Privmsg", "Action", "CTCP"} -> <<"P","R","I","V","M","S","G">>
      [] e.op = "CTCPReply" -> <<"N","O","T","I","C","E">>
      [] e.op = "Join" -> <<"J","O","I","N">>
      [] e.op = "Part" -> <<"P","A","R","T">>
      [] e.op = "Quit" -> <<"Q","U","I","T">>
      [] e.op = "Nick" -> <<"N","I","C","K">>
      [] OTHER -> <<>>
Target(e) == IF e.op \in {"Join", "Part"} THEN Names(e.in.chans) ELSE Token(e.in.dst)
\* the body a call must put on the wire after " :"
Body(e) ==
    CASE e.op = "Action" ->
            <<"SOH","A","C","T","I","O","N">>
            \o (IF e.in.msg = <<>> THEN <<>> ELSE <<" ">> \o BodyLine(e.in.msg))
            \o <<"SOH">>
      [] e.op \in {"CTCP", "CTCPReply"} ->
            <<"SOH">> \o Token(e.in.cmd)
            \o (IF e.in.msg = <<>> THEN <<>> ELSE <<" ">> \o BodyLine(e.in.msg))
            \o <<"SOH">>
      [] OTHER -> BodyLine(e.in.msg)
\* the one line a call with a destination must put on the wire
WireLine(e) ==
    CASE e.op = "Raw" -> NoNul(BodyLine(e.in.msg))
      [] e.op \in {"Quit", "Nick"} ->
            IF e.op = "Quit" /\ e.in.msg = <<>> THEN Verb(e)
            ELSE NoNul(Verb(e) \o <<" ",":">> \o Body(e))
      [] e.op = "Join" ->
            NoNul(Verb(e) \o <<" ">> \o Target(e)
                  \o (IF e.in.keys = <<>> THEN <<>> ELSE <<" ">> \o Names(e.in.keys)))
      [] e.op = "Part" /\ e.in.msg = <<>> -> NoNul(Verb(e) \o <<" ">> \o Target(e))
      [] OTHER -> NoNul(Verb(e) \o <<" ">> \o Target(e) \o <<" ",":">> \o Body(e))
\* the space-delimited fields of a wire line before its " :" body
HeadFields(l) ==
    LET colon == Index(l, <<" ",":">>)
    IN  Fields(IF colon = 0 THEN l ELSE Take(l, colon - 1))
\* the calls of send primitives with arguments that went through
SendCalls == {i \in 1..Len(extLog) : extLog[i].res /\ extLog[i].arg = "in"}
RECURSIVE SentUpTo(_)
SentUpTo(n) == IF n = 0 THEN <<>> ELSE SentUpTo(n - 1) \o extLog[n].sent

C15_WitnessJoin ==
    /\ Len(extLog) = 1 /\ extLog[1].op = "Join" /\ extLog[1].res
    /\ submitted["ext"] = << <<"J","O","I","N"," ","#","a",",","#","c"," ","k",",","j">> >>

\* well-formed UTF-8, byte by byte: a lead byte is followed by its
\* continuation bytes and a continuation byte belongs to a lead byte
LeadSize(b) == IF b \in Lead2 THEN 2 ELSE IF b \in Lead3 THEN 3 ELSE IF b \in Lead4 THEN 4 ELSE 1
ValidUTF8(s) ==
    \A i \in 1..Len(s) :
        IF s[i] \in ContByte
        THEN \E k \in 1..(UTFMax - 1) :
                /\ i - k >= 1 /\ LeadSize(s[i - k]) > k
                /\ \A j \in 1..(k - 1) : s[i - j] \in ContByte
        ELSE /\ i + LeadSize(s[i]) - 1 <= Len(s)
             /\ \A j \in 1..(LeadSize(s[i]) - 1) : s[i + j] \in ContByte
\* what filterMessage lets through
Filtered(l) == Len(l) <= MaxMessage /\ \A j \in 1..Len(l) : l[j] \notin {"NUL", "\r", "\n"}

\* C16: every string put on the writer channel, by the login lines, the
\* handlers and closures of the owner and the primitives of the handle,
\* holds no NUL, CR or LF and is at most 510 bytes long; every line written
\* to the socket is at most 512 bytes long with its CRLF; and a line made
\* from well-formed UTF-8 arguments is well-formed UTF-8.  The bytes are
\* looked at in the state where the line is the newest of its sender: the
\* record of what was sent only grows.
C16_Filtered ==
    /\ \A ctx \in Contexts :
          /\ \A k \in 1..Len(submitted[ctx]) : Len(submitted[ctx][k]) <= MaxMessage
          /\ submitted[ctx] # <<>> => Filtered(submitted[ctx][Len(submitted[ctx])])
    /\ \A k \in 1..Len(wbuf) : Len(wbuf[k].line) <= MaxMessage
    /\ wpPc = "write" => Len(WireBytes(wpCur.line)) <= MaxMessage + 2
    /\ \A k \in 1..Len(written) : Len(WireBytes(written[k].line)) <= MaxMessage + 2
    /\ Len(extLog) \in SendCalls =>
          LET e == extLog[Len(extLog)]
          IN  ValidUTF8(e.in.dst) /\ ValidUTF8(e.in.msg)
              => \A k \in 1..Len(e.sent) : ValidUTF8(e.sent[k])

\* the handle sent a line that was cut inside a rune, and the writer wrote it
C16_Witness ==
    \E i \in SendCalls :
        /\ Len(extLog[i].in.msg) > MaxMessage /\ ValidUTF8(extLog[i].in.msg)
        /\ Len(extLog[i].sent[1]) = MaxMessage - 1
        /\ \E k \in 1..Len(written) : written[k].line = extLog[i].sent[1]

\* Connect logged in with the long real name and the owner answered a PING
C16_WitnessOwner ==
    /\ \E k \in 1..Len(submitted["owner"]) :
          submitted["owner"][k] = <<"P","O","N","G"," ",":","a","b","c">>
    /\ \E k \in 1..Len(submitted["connect"]) :
          Len(submitted["connect"][k]) = MaxMessage

C17_WitnessIdle == pace.lines > 1 /\ pace.now > pace.before /\ pace.sleep = 0

\* the lines the owner sent on the writer channel in this step
OwnerSent == SubSeq(submitted'["owner"], Len(submitted["owner"]) + 1,
                    Len(submitted'["owner"]))

\* C18: for a 431, 432, 433, 436 or 437 line, if NickInUse or the default
\* policy has closed the connection the handler sends nothing, otherwise it
\* sends exactly one NICK with the nick returned; for a 431, or a line with
\* fewer than two arguments, the nick passed is empty (NickInUse "suffix"
\* returns 2), and the default policy shuts the connection down.
C18_BadNick ==
    [][dispatched' # dispatched
       /\ Dispatched(ownerCur).Command \in {Cmd431, Cmd432, Cmd433, Cmd436, Cmd437} =>
          LET line    == Dispatched(ownerCur)
              short   == line.Command = Cmd431 \/ Len(line.Args) < 2
              oldnick == IF short THEN <<>> ELSE line.Args[2]
          IN  /\ ~conn'.panic
              /\ ~Connected(conn') => OwnerSent = <<>>
              /\ Connected(conn') =>
                    OwnerSent = <<NickLine(IF env.nickInUse = "nil" THEN conn'.lastNick
                                           ELSE oldnick \o <<"2">>)>>
              /\ env.nickInUse = "nil" /\ ~short =>
                    conn'.lastNick \in {oldnick \o <<"_">>, ReplaceRune(oldnick, Len(oldnick))}
              /\ env.nickInUse = "nil" /\ short =>
                    /\ ~Connected(conn')
                    /\ conn'.shutCalls > conn.shutCalls
                    /\ Connected(conn) => conn'.shutdowns = conn.shutdowns + 1
                    /\ conn'.lastNick = conn.lastNick
              /\ env.nickInUse = "shutdown" => ~Connected(conn')]_vars

\* a 431 shut the connection down after a 432 was answered with a NICK
C18_Witness ==
    /\ env.nickInUse = "nil"
    /\ dispatched = <<Line432, Line431>>
    /\ submitted["owner"] = <<NickLine(<<"b","@","d","_">>)>>
    /\ ~Connected(conn) /\ conn.shutdowns = 1

\* NickInUse was given the empty nick of a 437 without arguments
C18_WitnessOverride ==
    /\ env.nickInUse = "suffix"
    /\ dispatched = <<Line437Short>>
    /\ submitted["owner"] = <<NickLine(<<"2">>)>>

\* NickInUse closed the connection and no NICK was sent
C18_WitnessClosed ==
    /\ env.nickInUse = "shutdown" /\ dispatched = <<Line433>>
    /\ submitted["owner"] = <<>> /\ conn.shutdowns = 1 /\ ~conn.panic

\* C19: no step of the owner (a line processed, a closure run, a Shutdown
\* of the loop) sends on the writer channel after Shutdown has closed it:
\* no such step ends in the run-time panic of a send on a closed channel.
C19_NoSendOnClosed == [][ownerPc' # ownerPc => ~conn'.panic]_vars

\* C20: a send or Invoke of the handle racing with Shutdown is safe and
\* free of deadlock.  While the handle holds the read lock the writer
\* channel is open and both shared fields are set, so the handle never
\* sends on a closed or nil channel; the writer and invoker fields of the
\* shared state are both nil or both set; the handle operation always
\* completes, and so does the step of the owner that calls Shutdown.
C20_HandleVsShutdown ==
    /\ [](/\ conn.stWriter <=> conn.stInvoker
          /\ extPc = "locked" =>
                /\ rlocks = 1 /\ conn.stWriter /\ conn.wCloses = 0 /\ ~conn.panic
          /\ extPc = "idle" => rlocks = 0
          /\ \A i \in 1..Len(extLog) : extLog[i].res => extLog[i].op \notin SendPrims
                                                         \/ Len(extLog[i].sent) = 1)
    /\ (extPc = "locked") ~> (extPc = "idle")
    /\ (ownerPc = "line") ~> (ownerPc = "select")

\* the handle's send went through, then the owner shut down, then the
\* handle was refused
C20_Witness ==
    /\ Len(extLog) = 2
    /\ extLog[1].op = "Raw" /\ extLog[1].res /\ ~extLog[1].shutAtEnd
    /\ ~extLog[2].res
    /\ conn.shutdowns = 1 /\ ~conn.panic

\* the owner holds a line whose handler calls Shutdown while the handle
\* holds the read lock
C20_WitnessWait ==
    extPc = "locked" /\ ownerPc = "line" /\ ownerCur = LineQuit /\ conn.shutdowns = 0

\* a parsed PRIVMSG or NOTICE with at least n arguments whose final argument
\* begins with \001
CtcpLine(p, n) ==
    /\ p.Command \in {CmdPRIVMSG, CmdNOTICE}
    /\ Len(p.Args) >= n
    /\ p.Args[Len(p.Args)] # <<>>
    /\ p.Args[Len(p.Args)][1] = "SOH"

\* the text between the leading and the optional trailing \001
Inner(p) ==
    LET t == Tail(p.Args[Len(p.Args)])
    IN  IF t # <<>> /\ t[Len(t)] = "SOH" THEN SubSeq(t, 1, Len(t) - 1) ELSE t

\* the inner command, and the remainder after the first space if there is one
InnerCommand(p) == Clamp(Inner(p), {" "})
Remainder(p) ==
    IF Len(InnerCommand(p)) < Len(Inner(p))
    THEN << SubSeq(Inner(p), Len(InnerCommand(p)) + 2, Len(Inner(p))) >>
    ELSE <<>>

\* the command and the arguments the claim gives the dispatched line
DemuxCommand(p) ==
    IF p.Command = CmdNOTICE THEN CTCPREPLY
    ELSE IF InnerCommand(p) = <<"A","C","T","I","O","N">> THEN EvACTION
    ELSE CTCP
DemuxArgs(p) ==
    IF DemuxCommand(p) = EvACTION
    THEN (IF Remainder(p) = <<>> THEN << <<>> >> ELSE Remainder(p))
    ELSE <<InnerCommand(p)>> \o Remainder(p)

\* the step that processes a CTCP line with at least n arguments runs
\* handlers under the rewritten command only, the user's among them, and the
\* Line a user handler is given has the rewritten arguments and the
\* original target as Dst
Demuxed(p, n) ==
    dispatched' # dispatched /\ CtcpLine(p, n) =>
        /\ \A i \in 1..Len(conn'.log) :
              conn'.log[i].ev \in {CmdPRIVMSG, CmdNOTICE, EvACTION, CTCP, CTCPREPLY}
                 => conn'.log[i].ev = DemuxCommand(p)
        /\ \E i \in 1..Len(conn'.log) :
              conn'.log[i].reg = "user" /\ conn'.log[i].ev = DemuxCommand(p)
        /\ \A o \in conn'.obs :
              o.line.Raw = ownerCur =>
                 /\ o.line.Command = DemuxCommand(p)
                 /\ o.line.Args = DemuxArgs(p)
                 /\ Len(o.line.Args) \in (IF DemuxCommand(p) = EvACTION THEN {1} ELSE {1, 2})
                 /\ o.line.Dst = p.Args[1]

\* C24, as the code has it: a PRIVMSG or NOTICE with a target and a final
\* argument that begins with \001 is never dispatched under its original
\* command.  It is dispatched as irc:action (PRIVMSG with the inner command
\* ACTION; its one argument is the remainder, or the empty string), as
\* irc:ctcp (any other PRIVMSG; the inner command and the remainder if there
\* is one) or as irc:ctcpreply (NOTICE), with Dst set to the original
\* target.  A PRIVMSG or NOTICE whose only argument is the CTCP text is
\* dispatched unchanged.
C24_Demux ==
    [][/\ Demuxed(parseLine(ownerCur), 2)
       /\ dispatched' # dispatched /\ CtcpLine(parseLine(ownerCur), 1)
             /\ ~CtcpLine(parseLine(ownerCur), 2) =>
                \A i \in 1..Len(conn'.log) :
                    conn'.log[i].ev \notin {EvACTION, CTCP, CTCPREPLY}]_vars

\* the user's irc:action handler was given ":nick PRIVMSG me :\001ACTION
\* waves\001" with the argument waves and the target me
C24_Witness ==
    /\ LineAction \in {dispatched[i] : i \in 1..Len(dispatched)}
    /\ \E o \in conn.obs :
          /\ o.line.Raw = LineAction
          /\ o.line.Command = EvACTION
          /\ o.line.Args = << <<"w","a","v","e","s">> >>
          /\ o.line.Dst = <<"m","e">>

\* a CTCP text without a target went to the user's PRIVMSG handler, which
\* shut the connection down
C24_WitnessNoTarget ==
    dispatched = <<LineActionNoTarget>> /\ ~Connected(conn) /\ conn.obs = {}

\* C24 as stated: every PRIVMSG or NOTICE whose final argument begins with
\* \001 is dispatched under a rewritten command
C24_AsStated == [][Demuxed(parseLine(ownerCur), 1)]_vars

\* the nick at the start of a source: it ends before the first ! or @
SourceNick(raw) == Clamp(raw, {"!", "@"})
\* what follows the nick, and what follows the user in it
AfterNick(raw) == SubSeq(raw, Len(SourceNick(raw)) + 1, Len(raw))
AfterUser2(raw) ==
    SubSeq(AfterNick(raw), Len(Clamp(Tail(AfterNick(raw)), {"@"})) + 2, Len(AfterNick(raw)))

\* the User of a source with an optional !user and a mandatory @host
SourceUser(raw) ==
    IF \/ Len(SourceNick(raw)) < 2
       \/ raw[1] \notin NickFirst
       \/ \E i \in 2..Len(SourceNick(raw)) : raw[i] \notin NickRest
       \/ Len(AfterNick(raw)) < 2
    THEN [Nick |-> <<>>, User |-> <<>>, Host |-> <<>>, Raw |-> raw]
    ELSE IF AfterNick(raw)[1] = "@"
    THEN [Nick |-> SourceNick(raw), User |-> <<>>, Host |-> Tail(AfterNick(raw)),
          Raw |-> raw]
    ELSE IF Len(AfterUser2(raw)) >= 2 /\ Len(AfterUser2(raw)) < Len(AfterNick(raw)) - 1
    THEN [Nick |-> SourceNick(raw), User |-> Clamp(Tail(AfterNick(raw)), {"@"}),
          Host |-> Tail(AfterUser2(raw)), Raw |-> raw]
    ELSE [Nick |-> <<>>, User |-> <<>>, Host |-> <<>>, Raw |-> raw]

\* C25: the Line a handler is given has the source parsed with `!user`
\* optional and `@host` mandatory: nick@host gives Nick, an empty User and
\* Host, nick!user@host gives all three, and any other source leaves the
\* three empty with only Raw set; processing a line whose command is empty
\* runs no handler and changes nothing.
C25_SourceParse ==
    [][dispatched' # dispatched =>
          /\ \A o \in conn'.obs : o.line.Src = SourceUser(o.line.Src.Raw)
          /\ parseLine(ownerCur).Command = <<>> =>
                conn' = [conn EXCEPT !.log = <<>>] /\ submitted' = submitted]_vars

\* "PING " and the digits of a number
IsPingLine(l) ==
    /\ Len(l) > 5
    /\ SubSeq(l, 1, 5) = <<"P","I","N","G"," ">>
    /\ \A i \in 6..Len(l) : l[i] \in Digit

\* C23: the pinger runs only for a ping interval >= 0, started by Connect
\* after the shared writer is installed; at each tick while the connection
\* is open it puts exactly one PING line on the writer channel and goes on;
\* at the first tick after Shutdown it puts no line there and ends, and it
\* sends nothing afterwards; after Shutdown it does end.
C23_Pinger ==
    /\ [](/\ pingPc # "off" =>
                env.pingInterval >= 0 /\ connPc \notin {"start", "init", "pumps", "failed"}
          /\ pingPc = "off" => submitted["ping"] = <<>>
          /\ pingPc = "done" => conn.shutdowns > 0
          /\ \A i \in 1..Len(submitted["ping"]) : IsPingLine(submitted["ping"][i]))
    /\ [][/\ pingPc = "wait" /\ (pingPc' # "wait" \/ submitted'["ping"] # submitted["ping"]) =>
                IF conn.shutdowns = 0
                THEN /\ pingPc' = "wait"
                     /\ Len(submitted'["ping"]) = Len(submitted["ping"]) + 1
                ELSE pingPc' = "done" /\ submitted'["ping"] = submitted["ping"]
          /\ pingPc # "wait" => pingPc' = pingPc \/ (pingPc = "off" /\ connPc = "pumps")
          /\ pingPc # "wait" => submitted'["ping"] = submitted["ping"]]_vars
    /\ (pingPc = "wait" /\ conn.shutdowns > 0) ~> (pingPc = "done")

\* the pinger sent a PING at a tick and ended at the tick after Shutdown
C23_Witness ==
    Len(submitted["ping"]) >= 1 /\ pingPc = "done" /\ conn.shutdowns = 1 /\ ~conn.panic

\* with a negative interval the connection ran and shut down without a pinger
C23_WitnessOff ==
    env.pingInterval < 0 /\ conn.shutdowns = 1 /\ pingPc = "off" /\ ownerPc = "done"

\* the writer pump has returned
WriterPumpExited == wpPc \in {"done", "failed"}

\* the writer's queue worker has sent all of buf and closed the queue
WriterWorkerExited == wbuf = <<>> /\ wqClosed

\* what a step may do to the writer: a failed write reports and closes
\* write-error and starts the drain; a draining pump writes nothing more and
\* takes nothing back; the worker closes the queue only after the writer
\* channel was closed and buf was sent; the pump returns only on the closed
\* queue
WriterSteps ==
    /\ (wpPc = "write" /\ wpPc' # "write" /\ written' = written)
          => (wpPc' = "drain" /\ writeErr' = writeErr + 1 /\ writeErrClosed')
    /\ (wpPc = "drain")
          => /\ wpPc' \in {"drain", "failed"}
             /\ written' = written
             /\ (Len(wbuf') <= Len(wbuf) \/ submitted' # submitted)
    /\ (wqClosed' /\ ~wqClosed) => (conn.wCloses > 0 /\ wbuf = <<>>)
    /\ (WriterPumpExited' /\ ~WriterPumpExited)
          => (wqClosed /\ wbuf = <<>> /\ writeErrClosed')

\* C21: a write that fails puts one error in write-error, closes write-error
\* and leaves the pump draining its queue; a pump that drains never writes
\* again; while it drains its worker's backlog empties and a producer that
\* sends on the writer channel (the handle under the read lock, the owner in
\* a handler) completes; once Shutdown has closed the writer channel the
\* worker sends its backlog and closes the queue, and the worker and the
\* pump return, with write-error closed.
C21_WriterDrains ==
    /\ [][WriterSteps]_vars
    /\ (wpPc = "drain") ~> (wbuf = <<>>)
    /\ (wpPc = "drain" /\ extPc = "locked") ~> (extPc = "idle")
    /\ (wpPc = "drain" /\ ownerPc \in {"line", "invoke"}) ~> (ownerPc \in {"select", "done"})
    /\ (conn.wCloses > 0) ~> (WriterWorkerExited /\ WriterPumpExited /\ writeErrClosed)

\* a write failed while the worker held a backlog, Shutdown closed the writer
\* channel, and the worker and the pump have returned with lines unwritten
C21_Witness ==
    /\ wpPc = "failed"
    /\ WriterWorkerExited
    /\ conn.wCloses = 1
    /\ conn.sockCloses = 1
    /\ Len(written) + 2 <= Len(submitted["connect"]) + Len(submitted["ext"])
                             + Len(submitted["owner"]) + Len(submitted["ping"])
    /\ ~conn.panic

\* the pump returned without a write error after Shutdown
C21_WitnessClean ==
    /\ wpPc = "done"
    /\ WriterWorkerExited
    /\ conn.wCloses = 1
    /\ writeErr = 0 /\ writeErrClosed
    /\ ~conn.panic

\* no run of SpecDrain panics
C21_NoPanic == ~conn.panic

\* connReader's pump has returned: Scan failed, readErr and the queue are
\* closed
ReaderPumpExited == rpPc = "done" /\ rqClosed

\* connReader's queue worker has sent all of buf and closed the reader channel
ReaderWorkerExited == rbuf = <<>> /\ rClosed

\* invokerQueue has seen its input closed and sent all of buf
InvokerExited == conn.iCloses > 0 /\ ibuf = <<>>

\* C22: once Shutdown has run and the owner loop has returned, the reader
\* pump, the reader's queue worker and the invoker's queue worker all
\* eventually return.
C22_TasksEnd ==
    (conn.shutdowns > 0 /\ ownerPc = "done")
        ~> (ReaderPumpExited /\ ReaderWorkerExited /\ InvokerExited)

\* the part of C22 about connReader alone
C22_ReaderEnds ==
    (conn.shutdowns > 0 /\ ownerPc = "done") ~> (ReaderPumpExited /\ ReaderWorkerExited)

\* the part of C22 about the reader pump alone
C22_ReaderPumpEnds ==
    (conn.shutdowns > 0 /\ ownerPc = "done") ~> ReaderPumpExited
====
